---------------------------- MODULE Spec2Model ----------------------------
(***************************************************************************)
(* A model of the Leabra simulation engine (schapirolab/leabra):           *)
(*   - the network dispatch of one cycle over the layers (Network.Cycle,   *)
(*     fanned out with ThrLayFun) and the trial timelines of the example   *)
(*     driver (Sim.AlphaCyc, Sim.SleepCyc)            -- specification Spec *)
(*   - the weight-balance counter of the network      -- SpecWtBal         *)
(*   - the construction of a layer's pools            -- SpecBuild         *)
(*   - the per-neuron passes of one layer             -- SpecLayer         *)
(*   - lesioning and the pool statistics of one layer -- SpecStats         *)
(*   - external input and clamping of one layer       -- SpecClamp         *)
(*   - the inhibition of one layer                    -- SpecInhib         *)
(*   - what a layer sends to its projections          -- SpecSend          *)
(*   - the calcium trace of one synapse               -- SpecSyn           *)
(*   - the phase statistic of one layer               -- SpecCos           *)
(*   - InitActs and DecayState of one layer           -- SpecInit          *)
(*   - the accessors of a layer by index              -- SpecQuery         *)
(*   - the oscillation of the inhibition in sleep     -- SpecOscil         *)
(*   - the conductance scales of the projections      -- SpecScale         *)
(*   - WtScaleParams.SLayActScale                     -- SpecSLay          *)
(*   - the Stop button and the training goroutine     -- SpecStop          *)
(*   - access to the fields of a synapse by name      -- SpecSynVar        *)
(*   - the flags of a layer over the trials           -- SpecTrial         *)
(*   - the configuration over the sleep trials        -- SpecWake          *)
(* Real numbers (float32) are fixed-point integers in units of 1/One.      *)
(***************************************************************************)
EXTENDS Integers, Sequences, FiniteSets, TLC

VARIABLES
    \* ---- the driver (Sim) and the network dispatch
    state,      \* the argument of Sim.AlphaCyc ("train", "test", "sleep"), or "slpcyc" for Sim.SleepCyc
    pc,         \* position of the driver inside AlphaCyc / SleepCyc
    qtr,        \* loop variable qtr of AlphaCyc
    cyc,        \* loop variable cyc of AlphaCyc / SleepCyc
    log,        \* the network-level calls the driver has made, in order (SpecOscil: with Gi)
    layOff,     \* layOff[l]: layer l is off (ly.IsOff())
    prog,       \* the ThrLayFun calls the running Network method still has to make
    fan,        \* "closed": Head(prog) not yet fanned out; "open": its tasks are out
    task,       \* task[l]: "none", "wait", "run", "done" for the task of layer l
    fnIdx,      \* fnIdx[l]: which function of the fanned-out closure layer l is running
    ltrace,     \* ltrace[l]: the layer functions layer l has finished in the current Cycle
    cycN,       \* number of Network.Cycle calls made so far
    geStamp,    \* geStamp[l]: the cycle whose AvgMaxGe wrote Pools[*].Ge of layer l
    actStamp,   \* actStamp[l]: the cycle whose AvgMaxAct wrote Pools[*].Act of layer l
    inhibStamp, \* inhibStamp[l]: <<geStamp, actStamp>> read by the last InhibFmGeAct of l
    \* ---- the weight-balance counter (Network)
    WtBalInterval,
    WtBalCtr,
    nWtFmDWt,   \* WtFmDWt calls since InitWts
    nWtBal,     \* WtBalFmWt passes since InitWts
    balFired,   \* the last WtFmDWt call ran WtBalFmWt
    lastOp,     \* the last method called
    nOps,       \* number of method calls made
    \* ---- one layer (Layer)
    ly,         \* the layer: its shape and parameters, Neurons and Pools
    lpc,        \* "none", "new" (not built), "built", "err" (Build returned an error), "panic"
    lret,       \* what the last call returned
    larg,       \* the argument of the last call (SpecTrial, SpecWake: the time it was made at)
    gsent,      \* gsent[sp][ni]: the sum of the deltas neuron ni has passed to sending projection sp
    \* ---- one synapse (Synapse)
    sy,         \* the synapse: its calcium trace and the parameters of the depression (SpecSynVar: all fields)
    \* ---- the layers and projections of a network (Network)
    nt,         \* the network: the running averages of its layers, the scales of its projections,
                \* (SpecWake) the types and parameters the parameter sets write
    \* ---- the simulation (Sim)
    sim         \* its run flags and counters, and the position of its training goroutine

drvVars == <<state, pc, qtr, cyc, log>>
netVars == <<layOff, prog, fan, task, fnIdx, ltrace, cycN, geStamp, actStamp, inhibStamp>>
balVars == <<WtBalInterval, WtBalCtr, nWtFmDWt, nWtBal, balFired, lastOp, nOps>>
layVars == <<ly, lpc, lret, larg>>
synVars == <<gsent, sy, nt, sim>>
vars == <<drvVars, netVars, balVars, layVars, synVars>>

-----------------------------------------------------------------------------
(* Bounds of the model *)

NLayers == 3
CycPerQtr == 2
MaxSlpCyc == 2
MaxInterval == 4
MaxOps == 9
One == 4
MaxDim == 2
MaxUnits == 2
MaxLayOps == 3

(* Program constants *)

WtBalIntervalDef == 10
NQuarters == 4
InitGIncEvery == 10
SimInhibOscil == TRUE

Layers == 1..NLayers

-----------------------------------------------------------------------------
(* Network: the ThrLayFun calls of each method.  A method is a sequence of *)
(* ThrLayFun calls; a ThrLayFun call is the sequence of layer functions    *)
(* its closure runs on one layer.                                          *)

NetSendGDelta_Fused == << <<"SendGDelta", "GFmInc">> >>

NetSendGDelta == << <<"SendGDelta">>, <<"GFmInc">> >>

NetCaUpdt == << <<"CaUpdt">> >>

NetCalSynDep == << <<"CalSynDep">> >>

NetAvgMaxGe == << <<"AvgMaxGe">> >>

NetInhibFmGeAct == << <<"InhibFmGeAct">> >>

NetActFmG == << <<"ActFmG">> >>

NetAvgMaxAct == << <<"AvgMaxAct">> >>

NetQuarterFinal == << <<"QuarterFinal">> >>

NetDWt == << <<"DWt">> >>

NetWtBalFmWt == << <<"WtBalFmWt">> >>

NetCycle_InhibFirst(sleep) ==
    (IF sleep THEN NetCaUpdt \o NetCalSynDep ELSE <<>>)
        \o NetSendGDelta \o NetInhibFmGeAct \o NetAvgMaxGe \o NetActFmG \o NetAvgMaxAct

NetCycle_AlwaysCa(sleep) ==
    NetCaUpdt \o NetCalSynDep
        \o NetSendGDelta \o NetAvgMaxGe \o NetInhibFmGeAct \o NetActFmG \o NetAvgMaxAct

NetCycle(sleep) ==
    (IF sleep THEN NetCaUpdt \o NetCalSynDep ELSE <<>>)
        \o NetSendGDelta \o NetAvgMaxGe \o NetInhibFmGeAct \o NetActFmG \o NetAvgMaxAct

(* Network.WtFmDWt after its ThrLayFun call: the counter and whether the   *)
(* weight-balance pass runs.                                               *)
WtBalStep_Gt(ctr, interval) ==
    IF ctr + 1 > interval
        THEN [ctr |-> 0, fire |-> TRUE]
        ELSE [ctr |-> ctr + 1, fire |-> FALSE]

WtBalStep(ctr, interval) ==
    IF ctr + 1 >= interval
        THEN [ctr |-> 0, fire |-> TRUE]
        ELSE [ctr |-> ctr + 1, fire |-> FALSE]

(* Network.AlphaCycInit: what it does to the counter (nothing). *)
NetAlphaCycInitCtr_Reset(ctr) == 0

NetAlphaCycInitCtr(ctr) == ctr

-----------------------------------------------------------------------------
(* The projections of the network (ConfigNet: every layer is connected to  *)
(* its neighbour, forward and back) and what each layer function reads and *)
(* writes: locations are <<"Neurons", l, field>>, <<"Pools", l, field>> of *)
(* layer l and <<"Prjn", <<s, r>>, field>> of the projection from s to r.  *)

Prjns == {p \in Layers \X Layers : p[1] - p[2] \in {1, -1}}

SndPrjns(l) == {p \in Prjns : p[1] = l}

RcvPrjns(l) == {p \in Prjns : p[2] = l}

Nrn(l, fields) == {<<"Neurons", l, f>> : f \in fields}

Pool(l, fields) == {<<"Pools", l, f>> : f \in fields}

Syn(ps, fields) == {<<"Prjn", p, f>> : p \in ps, f \in fields}

(* What the methods of a projection touch: the projection p = <<s, r>> and *)
(* the neurons of its two layers.                                          *)
PrjnWrites(m, p) ==
    CASE m = "SendGDelta" -> Syn({p}, {"GInc"})
      [] m = "RecvGInc" -> Syn({p}, {"GInc"}) \cup Nrn(p[2], {"GeInc", "GiInc"})
      [] m = "CaUpdt" -> Syn({p}, {"Cai"})
      [] m = "CalSynDep" -> Syn({p}, {"SRAvgDp", "Effwt"})
      [] m = "DWt" -> Syn({p}, {"DWt"})
      [] m = "WtFmDWt" -> Syn({p}, {"Wt", "LWt", "DWt"})
      [] m = "WtBalFmWt" -> Syn({p}, {"WtBal"})

PrjnReads(m, p) ==
    CASE m = "SendGDelta" -> Syn({p}, {"GScale", "Wt", "Effwt", "GInc"})
      [] m = "RecvGInc" -> Syn({p}, {"GInc"}) \cup Nrn(p[2], {"GeInc", "GiInc"})
      [] m = "CaUpdt" -> Syn({p}, {"Cai", "Effwt"}) \cup Nrn(p[2], {"Act"})
      [] m = "CalSynDep" -> Syn({p}, {"Cai", "Wt"})
      [] m = "DWt" -> Syn({p}, {"LWt", "DWt"}) \cup Nrn(p[1], {"Avgs"}) \cup Nrn(p[2], {"Avgs"})
      [] m = "WtFmDWt" -> Syn({p}, {"Wt", "LWt", "DWt", "WtBal"})
      [] m = "WtBalFmWt" -> Syn({p}, {"Wt"})

OverPrjns(ps, F(_)) == UNION {F(p) : p \in ps}

(* What the functions of layer l write.  The variant has GFmInc walk the   *)
(* sending projections instead of the receiving ones.                      *)
Writes_GFmIncSnd(f, l) ==
    CASE f = "SendGDelta" ->
            Nrn(l, {"ActSent"}) \cup OverPrjns(SndPrjns(l), LAMBDA p : PrjnWrites("SendGDelta", p))
      [] f = "GFmInc" ->
            OverPrjns(SndPrjns(l), LAMBDA p : PrjnWrites("RecvGInc", p))
                \cup Nrn(l, {"GeInc", "GiInc", "GeRaw", "GiRaw", "Ge", "GiSyn", "Noise"})
      [] f = "CaUpdt" -> OverPrjns(SndPrjns(l), LAMBDA p : PrjnWrites("CaUpdt", p))
      [] f = "CalSynDep" ->
            OverPrjns(SndPrjns(l), LAMBDA p : PrjnWrites("CaUpdt", p) \cup PrjnWrites("CalSynDep", p))
      [] f = "AvgMaxGe" -> Pool(l, {"Ge"})
      [] f = "InhibFmGeAct" -> Pool(l, {"Inhib"}) \cup Nrn(l, {"GiSelf", "Gi"})
      [] f = "ActFmG" -> Nrn(l, {"Inet", "Vm", "Act", "ActDel", "Avgs"})
      [] f = "AvgMaxAct" -> Pool(l, {"Act"})
      [] f = "QuarterFinal" ->
            Pool(l, {"ActM", "ActP", "CosDiff"})
                \cup Nrn(l, {"ActQ1", "ActQ2", "ActM", "ActP", "ActDif", "ActAvg", "Ext", "Flags"})
      [] f = "DWt" -> OverPrjns(SndPrjns(l), LAMBDA p : PrjnWrites("DWt", p))
      [] f = "WtFmDWt" -> OverPrjns(SndPrjns(l), LAMBDA p : PrjnWrites("WtFmDWt", p))
      [] f = "WtBalFmWt" -> OverPrjns(RcvPrjns(l), LAMBDA p : PrjnWrites("WtBalFmWt", p))

Writes(f, l) ==
    CASE f = "SendGDelta" ->
            Nrn(l, {"ActSent"}) \cup OverPrjns(SndPrjns(l), LAMBDA p : PrjnWrites("SendGDelta", p))
      [] f = "GFmInc" ->
            OverPrjns(RcvPrjns(l), LAMBDA p : PrjnWrites("RecvGInc", p))
                \cup Nrn(l, {"GeInc", "GiInc", "GeRaw", "GiRaw", "Ge", "GiSyn", "Noise"})
      [] f = "CaUpdt" -> OverPrjns(SndPrjns(l), LAMBDA p : PrjnWrites("CaUpdt", p))
      [] f = "CalSynDep" ->
            OverPrjns(SndPrjns(l), LAMBDA p : PrjnWrites("CaUpdt", p) \cup PrjnWrites("CalSynDep", p))
      [] f = "AvgMaxGe" -> Pool(l, {"Ge"})
      [] f = "InhibFmGeAct" -> Pool(l, {"Inhib"}) \cup Nrn(l, {"GiSelf", "Gi"})
      [] f = "ActFmG" -> Nrn(l, {"Inet", "Vm", "Act", "ActDel", "Avgs"})
      [] f = "AvgMaxAct" -> Pool(l, {"Act"})
      [] f = "QuarterFinal" ->
            Pool(l, {"ActM", "ActP", "CosDiff"})
                \cup Nrn(l, {"ActQ1", "ActQ2", "ActM", "ActP", "ActDif", "ActAvg", "Ext", "Flags"})
      [] f = "DWt" -> OverPrjns(SndPrjns(l), LAMBDA p : PrjnWrites("DWt", p))
      [] f = "WtFmDWt" -> OverPrjns(SndPrjns(l), LAMBDA p : PrjnWrites("WtFmDWt", p))
      [] f = "WtBalFmWt" -> OverPrjns(RcvPrjns(l), LAMBDA p : PrjnWrites("WtBalFmWt", p))

(* What the functions of layer l read *)
Reads(f, l) ==
    CASE f = "SendGDelta" ->
            Nrn(l, {"Flags", "Act", "ActSent"})
                \cup OverPrjns(SndPrjns(l), LAMBDA p : PrjnReads("SendGDelta", p))
      [] f = "GFmInc" ->
            OverPrjns(RcvPrjns(l), LAMBDA p : PrjnReads("RecvGInc", p))
                \cup Nrn(l, {"Flags", "Ext", "GeInc", "GiInc", "GeRaw", "GiRaw", "Ge", "GiSyn", "Noise"})
      [] f = "CaUpdt" ->
            Nrn(l, {"Flags", "Act"}) \cup OverPrjns(SndPrjns(l), LAMBDA p : PrjnReads("CaUpdt", p))
      [] f = "CalSynDep" ->
            Nrn(l, {"Flags", "Act"})
                \cup OverPrjns(SndPrjns(l), LAMBDA p : PrjnReads("CaUpdt", p) \cup PrjnReads("CalSynDep", p))
      [] f = "AvgMaxGe" -> Nrn(l, {"Ge"}) \cup Pool(l, {"StIdx", "EdIdx"})
      [] f = "InhibFmGeAct" ->
            Pool(l, {"Ge", "Act", "Inhib", "StIdx", "EdIdx"})
                \cup Nrn(l, {"Flags", "Act", "GiSelf", "GiSyn"})
      [] f = "ActFmG" -> Nrn(l, {"Flags", "Ge", "Gi", "Vm", "Act", "Ext", "Noise", "Avgs"})
      [] f = "AvgMaxAct" -> Nrn(l, {"Flags", "Act"}) \cup Pool(l, {"StIdx", "EdIdx"})
      [] f = "QuarterFinal" ->
            Pool(l, {"Act", "ActM", "ActP"})
                \cup Nrn(l, {"Flags", "Act", "Targ", "ActM", "ActP", "ActAvg"})
      [] f = "DWt" -> OverPrjns(SndPrjns(l), LAMBDA p : PrjnReads("DWt", p))
      [] f = "WtFmDWt" -> OverPrjns(SndPrjns(l), LAMBDA p : PrjnReads("WtFmDWt", p))
      [] f = "WtBalFmWt" -> OverPrjns(RcvPrjns(l), LAMBDA p : PrjnReads("WtBalFmWt", p))

-----------------------------------------------------------------------------
(* Layer: the neurons and the pools of one layer.  Conductances and        *)
(* activations are fixed-point numbers, One standing for 1.0.  Indices     *)
(* start at 0 as in the source.                                            *)

(* The parameters of the activation and of the inhibition, as the         *)
(* Defaults methods set them.                                              *)

(* ActParams.Defaults: XX1 (Thr, Gain), Init (Vm, Act, Ge), Dt (VmDt =     *)
(* Integ / VmTau, GDt = Integ / GTau), Gbar and Erev (SetAll, in the order *)
(* E, L, I, K), VmRange and Clamp.                                         *)
ActParams ==
    [XX1 |-> [Thr |-> One \div 2, Gain |-> 100],
     Init |-> [Vm |-> (4 * One) \div 10, Act |-> 0, Ge |-> 0],
     Dt |-> [VmDt |-> (10 * One) \div 33, GDt |-> (10 * One) \div 14],
     Gbar |-> [E |-> One, L |-> One \div 5, I |-> One],
     Erev |-> [E |-> One, L |-> (3 * One) \div 10, I |-> One \div 4],
     VmRange |-> [Min |-> 0, Max |-> 2 * One],
     Clamp |-> [Range |-> [Min |-> 0, Max |-> (95 * One) \div 100],
                Gain |-> (2 * One) \div 10,
                Avg |-> FALSE,
                AvgGain |-> (2 * One) \div 10]]

(* FFFBParams.Defaults, with FBDt = 1 / FBTau as FFFBParams.Update sets it *)
FFFBParams ==
    [Gi |-> (18 * One) \div 10,
     GiOscPer |-> 25,
     GiOscMax |-> (103 * One) \div 100,
     GiOscMin |-> (97 * One) \div 100,
     FF |-> One,
     FB |-> One,
     FBDt |-> (10 * One) \div 14,
     MaxVsAvg |-> 0,
     FF0 |-> One \div 10]

(* SelfInhibParams.Defaults, with Dt = 1 / Tau *)
SelfInhibParams ==
    [Gi |-> (4 * One) \div 10,
     Dt |-> (10 * One) \div 14]

Vals == {0, One \div 2, One}

NoiseVals == {0, One \div 4}

DecayVals == {0, One \div 2, One}

PropVals == {0 - (One \div 2), 0, One \div 4, One \div 2, One, One + (One \div 2)}

(* The values a pass gives the neurons of a layer of nn units: the same    *)
(* value for all, or values that rise or fall with the index.              *)
Patterns(nn, vals) ==
    {[ni \in 0..(nn - 1) |-> v] : v \in vals}
        \cup {[ni \in 0..(nn - 1) |-> ((ni + 1) * One) \div nn],
              [ni \in 0..(nn - 1) |-> ((nn - ni) * One) \div nn]}

NoiseModes == {"NoNoise", "Fixed", "PerCycle"}

Shapes2D == (0..MaxDim) \X (0..MaxDim)

Shapes4D == (0..MaxDim) \X (0..MaxDim) \X (0..MaxDim) \X (0..MaxDim)

RECURSIVE ShpLen(_)
ShpLen(shp) == IF shp = <<>> THEN 1 ELSE Head(shp) * ShpLen(Tail(shp))

(* Row-major offset of the unit at idx *)
RECURSIVE ShpOffsetFrom(_, _, _)
ShpOffsetFrom(shp, idx, acc) ==
    IF shp = <<>> THEN acc
    ELSE ShpOffsetFrom(Tail(shp), Tail(idx), acc * Head(shp) + Head(idx))

ShpOffset(shp, idx) == ShpOffsetFrom(shp, idx, 0)

Is4D(l) == Len(l.Shp) = 4

NPools(l) == IF Is4D(l) THEN l.Shp[1] * l.Shp[2] ELSE 0

IsOff(nrn) == nrn.Off

(* A neuron as make([]Neuron, nu) leaves it.  HasExt and HasTarg are the    *)
(* flags NeurHasExt and NeurHasTarg.                                       *)
NewNeuron ==
    [Off |-> FALSE, HasExt |-> FALSE, HasTarg |-> FALSE, SubPool |-> 0,
     Ge |-> 0, Gi |-> 0, GiSelf |-> 0, GiSyn |-> 0, Act |-> 0, ActSent |-> 0,
     Vm |-> 0, ActDel |-> 0, Inet |-> 0, Ext |-> 0, Targ |-> 0,
     GeRaw |-> 0, GeInc |-> 0, GiRaw |-> 0, GiInc |-> 0,
     Noise |-> 0, ActQ1 |-> 0, ActQ2 |-> 0, ActM |-> 0, ActP |-> 0]

AvgMaxZero == [Avg |-> 0, Sum |-> 0, Max |-> 0, MaxIdx |-> 0, N |-> 0]

(* FFFBInhib of a pool *)
InhibZero == [FFi |-> 0, FBi |-> 0, Gi |-> 0, GiOrig |-> 0]

NewPool ==
    [StIdx |-> 0, EdIdx |-> 0, Inhib |-> InhibZero, Ge |-> AvgMaxZero, Act |-> AvgMaxZero,
     ActM |-> AvgMaxZero, ActP |-> AvgMaxZero]

InitDecayDef == One

(* A layer with its parameters as Layer.Defaults leaves them, but for the  *)
(* shape, Inhib.Pool.On, the noise and Act.Clamp.Hard, which are given.    *)
(* LayerGi and LayerGiBase are Gi and GiBase of Inhib.Layer, PoolGi and    *)
(* PoolGiBase those of Inhib.Pool; GiOscPer, GiOscMax and GiOscMin are     *)
(* those of Inhib.Layer.                                                   *)
(* Noise says whether Act.Noise.Type is NoNoise and whether the noise is   *)
(* fixed over the trial, NoiseTyp where it is added; SndOff[sp] is IsOff   *)
(* of the sending projection sp.                                           *)
NewLayer(shp, on, noise, hard) ==
    [Shp |-> shp, Typ |-> "Hidden", PoolOn |-> on, LayerOn |-> TRUE, SelfOn |-> FALSE,
     LayerGi |-> FFFBParams.Gi, PoolGi |-> FFFBParams.Gi,
     LayerGiBase |-> FFFBParams.Gi, PoolGiBase |-> FFFBParams.Gi,
     GiOscPer |-> FFFBParams.GiOscPer, GiOscMax |-> FFFBParams.GiOscMax,
     GiOscMin |-> FFFBParams.GiOscMin,
     SelfGi |-> SelfInhibParams.Gi, SelfDt |-> SelfInhibParams.Dt,
     Noise |-> noise, NoiseTyp |-> "GeNoise", Hard |-> hard, InitDecay |-> InitDecayDef,
     VmDt |-> ActParams.Dt.VmDt, SndOff |-> <<>>,
     Send |-> One \div 10, Delta |-> One \div 200,
     Neurons |-> [ni \in {} |-> NewNeuron], Pools |-> [pi \in {} |-> NewPool],
     CosDiff |-> [Cos |-> 0]]

(* A synapse as it is made: every field zero *)
NewSynapse ==
    [Cai |-> 0, Effwt |-> 0, Ca_inc |-> 0, Ca_dec |-> 0, sd_ca_thr |-> 0, sd_ca_gain |-> 0,
     sd_ca_thr_rescale |-> 0]

NIdx(l) == DOMAIN l.Neurons

PIdx(l) == DOMAIN l.Pools

(* Layer.BuildSubPools: k counts the turns of the two loops, py = k div   *)
(* spx and px = k mod spx; st carries Pools, Neurons, pi and lastOff.      *)
RECURSIVE SubPoolsLoop(_, _, _)
SubPoolsLoop(shp, k, st) ==
    IF k >= shp[1] * shp[2] THEN st
    ELSE LET off == ShpOffset(shp, <<k \div shp[2], k % shp[2], 0, 0>>) IN
         IF off = 0 THEN SubPoolsLoop(shp, k + 1, st)
         ELSE SubPoolsLoop(shp, k + 1,
                [Pools |-> [st.Pools EXCEPT ![st.pi].StIdx = st.lastOff,
                                            ![st.pi].EdIdx = off],
                 Neurons |-> [ni \in DOMAIN st.Neurons |->
                                IF st.lastOff <= ni /\ ni < off
                                    THEN [st.Neurons[ni] EXCEPT !.SubPool = st.pi]
                                    ELSE st.Neurons[ni]],
                 pi |-> st.pi + 1,
                 lastOff |-> off])

BuildSubPools(l) ==
    IF ~Is4D(l) THEN l
    ELSE LET st == SubPoolsLoop(l.Shp, 0,
                        [Pools |-> l.Pools, Neurons |-> l.Neurons, pi |-> 0, lastOff |-> 0])
         IN [l EXCEPT !.Pools = st.Pools, !.Neurons = st.Neurons]

BuildPools(l, nu) ==
    LET np == IF l.PoolOn THEN 1 + NPools(l) ELSE 1
        made == [l EXCEPT !.Pools = [pi \in 0..(np - 1) |->
                                        IF pi = 0 THEN [NewPool EXCEPT !.EdIdx = nu]
                                                  ELSE NewPool]]
    IN IF np > 1 THEN BuildSubPools(made) ELSE made

(* Layer.Build: the layer and whether it was built *)
Build(l) ==
    LET nu == ShpLen(l.Shp) IN
    IF nu = 0 THEN [ly |-> l, ok |-> FALSE]
    ELSE [ly |-> BuildPools([l EXCEPT !.Neurons = [ni \in 0..(nu - 1) |-> NewNeuron]], nu),
          ok |-> TRUE]

(* The Sim before a run: not running, no stop asked for, its environment   *)
(* just initialised (trial counter at -1).  req and late are history: a    *)
(* Stop was asked for since the running loop was started, and the number   *)
(* of training trials begun since then.                                    *)
NewSim ==
    [IsRunning |-> FALSE, StopNow |-> FALSE, loop |-> "none", at |-> "idle",
     run |-> 0, epc |-> 0, trl |-> -1, tst |-> -1, curEpc |-> 0, curRun |-> 0,
     qtr |-> 0, req |-> FALSE, late |-> 0]

SynNone ==
    /\ gsent = <<>>
    /\ nt = <<>>
    /\ sim = NewSim
    /\ sy = NewSynapse

LayNone ==
    /\ SynNone
    /\ ly = NewLayer(<<>>, FALSE, "NoNoise", FALSE)
    /\ lpc = "none"
    /\ lret = 0
    /\ larg = 0

-----------------------------------------------------------------------------
(* The running statistics of a pool: Init, UpdateVal and CalcAvg of        *)
(* AvgMax32.  NegMax stands for the most negative number.                  *)

NegMax == 0 - (One * One)

AvgMaxInit == [Avg |-> 0, Sum |-> 0, Max |-> NegMax, MaxIdx |-> 0 - 1, N |-> 0]

AvgMaxUpdateVal(am, val, idx) ==
    [am EXCEPT !.Sum = @ + val,
               !.N = @ + 1,
               !.Max = IF val > am.Max THEN val ELSE @,
               !.MaxIdx = IF val > am.Max THEN idx ELSE @]

AvgMaxCalcAvg(am) ==
    IF am.N > 0 THEN [am EXCEPT !.Avg = am.Sum \div am.N]
    ELSE [am EXCEPT !.Avg = am.Sum, !.Max = am.Sum]

(* x - decay * x *)
Decayed(x, decay) == x - ((decay * x) \div One)

(* Truncation toward zero, as the conversion of a float to int *)
ToInt(x) == IF x >= 0 THEN x \div One ELSE 0 - ((0 - x) \div One)

-----------------------------------------------------------------------------
(* The passes of Layer over its neurons and pools.  What the activation    *)
(* functions compute (GeGiFmInc, VmFmG, ActFmG, HardClamp, Noise.Gen) is   *)
(* an argument: one value per neuron, whatever it is.                      *)

(* Layer.GenNoise *)
GenNoise(l, nz) ==
    [l EXCEPT !.Neurons = [ni \in NIdx(l) |-> [l.Neurons[ni] EXCEPT !.Noise = nz[ni]]]]

Abs(x) == IF x < 0 THEN 0 - x ELSE x

Max(a, b) == IF a > b THEN a ELSE b

(* Product and quotient of two fixed-point numbers, cut toward zero *)
FMul(a, b) == ToInt(a * b)

FDiv(a, b) ==
    IF (a >= 0) = (b > 0) THEN (Abs(a) * One) \div Abs(b) ELSE 0 - ((Abs(a) * One) \div Abs(b))

(* minmax.F32.ClipVal *)
ClipVal(min, max, val) == IF val < min THEN min ELSE IF val > max THEN max ELSE val

(* ActParams.InitGeGi *)
ActInitGeGi(nrn) ==
    [nrn EXCEPT !.ActSent = 0, !.GeRaw = 0, !.GeInc = 0, !.GiRaw = 0, !.GiInc = 0]

(* ActParams.DecayState *)
ActDecayState(nrn, decay) ==
    ActInitGeGi(
        [nrn EXCEPT !.Act = IF decay > 0 THEN @ - FMul(decay, @ - ActParams.Init.Act) ELSE @,
                    !.Ge = IF decay > 0 THEN @ - FMul(decay, @ - ActParams.Init.Ge) ELSE @,
                    !.Gi = IF decay > 0 THEN @ - FMul(decay, @) ELSE @,
                    !.GiSelf = IF decay > 0 THEN @ - FMul(decay, @) ELSE @,
                    !.Vm = IF decay > 0 THEN @ - FMul(decay, @ - ActParams.Init.Vm) ELSE @,
                    !.ActDel = 0,
                    !.Inet = 0])

(* ActParams.InitActs *)
ActInitActs(nrn) ==
    ActInitGeGi(
        [nrn EXCEPT !.Act = ActParams.Init.Act, !.Ge = ActParams.Init.Ge, !.Gi = 0, !.GiSelf = 0, !.Inet = 0,
                    !.Vm = ActParams.Init.Vm, !.Targ = 0, !.Ext = 0, !.ActDel = 0])

(* Layer.InitActs *)
InitActs(l) ==
    [l EXCEPT !.Neurons = [ni \in NIdx(l) |-> ActInitActs(l.Neurons[ni])]]

(* Layer.InitExt; the variant leaves the flags of the neurons as they are *)
InitExt_KeepFlags(l) ==
    [l EXCEPT !.Neurons = [ni \in NIdx(l) |-> [l.Neurons[ni] EXCEPT !.Ext = 0, !.Targ = 0]]]

InitExt(l) ==
    [l EXCEPT !.Neurons = [ni \in NIdx(l) |->
        [l.Neurons[ni] EXCEPT !.Ext = 0, !.Targ = 0, !.HasExt = FALSE, !.HasTarg = FALSE]]]

(* Layer.ApplyExtFlags: the flag set, and whether the input goes to Targ *)
ApplyExtFlags(l) ==
    IF l.Typ = "Target" THEN [setmsk |-> "HasTarg", toTarg |-> TRUE]
    ELSE IF l.Typ = "Compare" THEN [setmsk |-> "HasCmpr", toTarg |-> TRUE]
    ELSE [setmsk |-> "HasExt", toTarg |-> FALSE]

(* Layer.ApplyExt1D32: ext[i] is the input of neuron i, i < Len(ext) *)
ApplyExt1D32(l, ext) ==
    LET f == ApplyExtFlags(l)
        mx == IF Len(ext) < Cardinality(NIdx(l)) THEN Len(ext) ELSE Cardinality(NIdx(l))
    IN [l EXCEPT !.Neurons = [i \in NIdx(l) |->
            LET nrn == l.Neurons[i] IN
            IF i >= mx \/ IsOff(nrn) THEN nrn
            ELSE [nrn EXCEPT !.Targ = IF f.toTarg THEN ext[i + 1] ELSE @,
                             !.Ext = IF f.toTarg THEN @ ELSE ext[i + 1],
                             !.HasExt = f.setmsk = "HasExt",
                             !.HasTarg = f.setmsk = "HasTarg"]]]

(* Layer.DecayState; the variant decays Act.Max of a pool and leaves its Act.Avg *)
DecayState_InitInhib(l, decay) ==
    [l EXCEPT !.Neurons = [ni \in NIdx(l) |->
                            IF IsOff(l.Neurons[ni]) THEN l.Neurons[ni]
                            ELSE ActDecayState(l.Neurons[ni], decay)],
              !.Pools = [pi \in PIdx(l) |->
                            [l.Pools[pi] EXCEPT !.Act.Max = Decayed(@, decay),
                                                !.Act.Avg = Decayed(@, decay),
                                                !.Inhib = InhibZero]]]

DecayState_MaxOnly(l, decay) ==
    [l EXCEPT !.Neurons = [ni \in NIdx(l) |->
                            IF IsOff(l.Neurons[ni]) THEN l.Neurons[ni]
                            ELSE ActDecayState(l.Neurons[ni], decay)],
              !.Pools = [pi \in PIdx(l) |->
                            [l.Pools[pi] EXCEPT !.Act.Max = Decayed(@, decay),
                                                !.Inhib.FFi = Decayed(@, decay),
                                                !.Inhib.FBi = Decayed(@, decay),
                                                !.Inhib.Gi = Decayed(@, decay)]]]

DecayState(l, decay) ==
    [l EXCEPT !.Neurons = [ni \in NIdx(l) |->
                            IF IsOff(l.Neurons[ni]) THEN l.Neurons[ni]
                            ELSE ActDecayState(l.Neurons[ni], decay)],
              !.Pools = [pi \in PIdx(l) |->
                            [l.Pools[pi] EXCEPT !.Act.Max = Decayed(@, decay),
                                                !.Act.Avg = Decayed(@, decay),
                                                !.Inhib.FFi = Decayed(@, decay),
                                                !.Inhib.FBi = Decayed(@, decay),
                                                !.Inhib.Gi = Decayed(@, decay)]]]

(* ActParams.HasHardClamp *)
ActHasHardClamp(l, nrn) == l.Hard /\ nrn.HasExt

(* ActParams.HardClamp *)
ActHardClamp(l, nrn) ==
    LET clmp == ClipVal(ActParams.Clamp.Range.Min, ActParams.Clamp.Range.Max, nrn.Ext) IN
    [nrn EXCEPT !.Act = clmp,
                !.Vm = ActParams.XX1.Thr + (clmp \div ActParams.XX1.Gain),
                !.ActDel = 0,
                !.Inet = 0]

(* Layer.HardClamp *)
HardClamp(l) ==
    [l EXCEPT !.Neurons = [ni \in NIdx(l) |->
                            IF IsOff(l.Neurons[ni]) THEN l.Neurons[ni]
                            ELSE ActHardClamp(l, l.Neurons[ni])]]

(* Layer.AlphaCycInit *)
AlphaCycInit(l, nz) ==
    LET a == IF l.Noise = "Fixed" THEN GenNoise(l, nz) ELSE l
        b == DecayState(a, l.InitDecay)
    IN IF l.Hard /\ l.Typ = "Input" THEN HardClamp(b) ELSE b

(* Layer.SendGDelta, the neurons: Send and Delta are Act.OptThresh.Send    *)
(* and Delta (defaults 0.1 and 0.005).  The variant leaves ActSent as it   *)
(* is when it withdraws what was sent.                                     *)
SendGDelta_NoReset(l) ==
    [l EXCEPT !.Neurons = [ni \in NIdx(l) |->
        LET nrn == l.Neurons[ni] IN
        IF IsOff(nrn) THEN nrn
        ELSE IF nrn.Act > l.Send
                THEN IF Abs(nrn.Act - nrn.ActSent) > l.Delta
                        THEN [nrn EXCEPT !.ActSent = nrn.Act]
                        ELSE nrn
                ELSE nrn]]

SendGDelta(l) ==
    [l EXCEPT !.Neurons = [ni \in NIdx(l) |->
        LET nrn == l.Neurons[ni] IN
        IF IsOff(nrn) THEN nrn
        ELSE IF nrn.Act > l.Send
                THEN IF Abs(nrn.Act - nrn.ActSent) > l.Delta
                        THEN [nrn EXCEPT !.ActSent = nrn.Act]
                        ELSE nrn
                ELSE IF nrn.ActSent > l.Send
                        THEN [nrn EXCEPT !.ActSent = 0]
                        ELSE nrn]]

(* Layer.SendGDelta, the projections: g[sp][ni] is the sum of the deltas   *)
(* that the calls sp.SendGDelta(ni, delta, sleep) have passed to sending   *)
(* projection sp for neuron ni; l.SndOff[sp] is sp.IsOff().                *)
SendGDeltaPrjns(l, g) ==
    LET delta(ni) ==
            LET nrn == l.Neurons[ni] IN
            IF IsOff(nrn) THEN 0
            ELSE IF nrn.Act > l.Send
                    THEN IF Abs(nrn.Act - nrn.ActSent) > l.Delta
                            THEN nrn.Act - nrn.ActSent
                            ELSE 0
                    ELSE IF nrn.ActSent > l.Send THEN 0 - nrn.ActSent ELSE 0
    IN [sp \in DOMAIN g |->
            [ni \in NIdx(l) |-> IF l.SndOff[sp] THEN g[sp][ni] ELSE g[sp][ni] + delta(ni)]]

(* ClampParams.AvgGe *)
ClampAvgGe(ext, ge) == FMul(FMul(ActParams.Clamp.AvgGain, ActParams.Clamp.Gain), ext) + FMul(One - ActParams.Clamp.AvgGain, ge)

(* DtParams.GFmRaw *)
DtGFmRaw(geRaw, ge) == ge + FMul(ActParams.Dt.GDt, geRaw - ge)

(* ActParams.GeGiFmInc with GRawFmInc: nz is what Noise.Gen gives *)
ActGeGiFmInc(l, nrn, nz) ==
    LET geRaw == nrn.GeRaw + nrn.GeInc
        giRaw == nrn.GiRaw + nrn.GiInc
        geClamped == IF ~l.Hard /\ nrn.HasExt
                        THEN IF ActParams.Clamp.Avg THEN ClampAvgGe(nrn.Ext, geRaw)
                                         ELSE geRaw + FMul(nrn.Ext, ActParams.Clamp.Gain)
                        ELSE geRaw
        noise == IF l.Noise = "PerCycle" THEN nz ELSE nrn.Noise
    IN [nrn EXCEPT !.GeRaw = geRaw, !.GeInc = 0, !.GiRaw = giRaw, !.GiInc = 0,
                   !.Ge = DtGFmRaw(geClamped, nrn.Ge)
                            + IF l.Noise # "NoNoise" /\ l.NoiseTyp = "GeNoise" THEN noise ELSE 0,
                   !.GiSyn = Max(DtGFmRaw(giRaw, nrn.GiSyn), 0),
                   !.Noise = noise]

(* Layer.GFmInc: geInc[ni] and giInc[ni] are what RecvGInc of the          *)
(* receiving projections adds to GeInc and GiInc of neuron ni.             *)
GFmInc(l, geInc, giInc, nz) ==
    [l EXCEPT !.Neurons = [ni \in NIdx(l) |->
                            IF IsOff(l.Neurons[ni]) THEN l.Neurons[ni]
                            ELSE ActGeGiFmInc(l, [l.Neurons[ni] EXCEPT !.GeInc = @ + geInc[ni],
                                                                       !.GiInc = @ + giInc[ni]],
                                              nz[ni])]]

(* Layer.AvgMaxGe *)
RECURSIVE AvgMaxGeLoop(_, _, _, _)
AvgMaxGeLoop(nrns, ni, ed, am) ==
    IF ni >= ed THEN am
    ELSE AvgMaxGeLoop(nrns, ni + 1, ed, AvgMaxUpdateVal(am, nrns[ni].Ge, ni))

AvgMaxGe(l) ==
    [l EXCEPT !.Pools = [pi \in PIdx(l) |->
        [l.Pools[pi] EXCEPT !.Ge =
            AvgMaxCalcAvg(AvgMaxGeLoop(l.Neurons, l.Pools[pi].StIdx, l.Pools[pi].EdIdx,
                                       AvgMaxInit))]]]

(* FFFBParams.FFInhib *)
FFInhib(avgGe, maxGe) ==
    LET ffNetin == avgGe + FMul(FFFBParams.MaxVsAvg, maxGe - avgGe) IN
    IF ffNetin > FFFBParams.FF0 THEN FMul(FFFBParams.FF, ffNetin - FFFBParams.FF0) ELSE 0

(* FFFBParams.FBInhib *)
FBInhib(avgAct) == FMul(FFFBParams.FB, avgAct)

(* FFFBParams.FBUpdt *)
FBUpdt(fbi, newFbi) == fbi + FMul(FFFBParams.FBDt, newFbi - fbi)

(* FFFBParams.Inhib: on and gi are the On and the Gi of the parameters *)
FFFBInhib(on, gi, avgGe, maxGe, avgAct, inh) ==
    IF ~on THEN InhibZero
    ELSE LET ffi == FFInhib(avgGe, maxGe)
             fbi == FBUpdt(inh.FBi, FBInhib(avgAct))
         IN [FFi |-> ffi, FBi |-> fbi, Gi |-> FMul(gi, ffi + fbi), GiOrig |-> FMul(gi, ffi + fbi)]

(* SelfInhibParams.Inhib; the variant keeps the value when self-inhibition *)
(* is off.                                                                 *)
SelfInhib_Keep(l, self, act) ==
    IF l.SelfOn THEN self + FMul(l.SelfDt, FMul(l.SelfGi, act) - self) ELSE self

SelfInhib(l, self, act) ==
    IF l.SelfOn THEN self + FMul(l.SelfDt, FMul(l.SelfGi, act) - self) ELSE 0

(* Layer.InhibFmGeAct.  The ranges of the pools walked never overlap, so a *)
(* neuron is walked once or not at all.                                    *)
InhibFmGeAct(l) ==
    LET np == Cardinality(PIdx(l))
        lpl == FFFBInhib(l.LayerOn, l.LayerGi, l.Pools[0].Ge.Avg, l.Pools[0].Ge.Max,
                         l.Pools[0].Act.Avg, l.Pools[0].Inhib)
        pls == [pi \in PIdx(l) |->
                    IF pi = 0 THEN [l.Pools[0] EXCEPT !.Inhib = lpl]
                    ELSE LET inh == FFFBInhib(l.PoolOn, l.PoolGi, l.Pools[pi].Ge.Avg,
                                              l.Pools[pi].Ge.Max, l.Pools[pi].Act.Avg,
                                              l.Pools[pi].Inhib)
                         IN [l.Pools[pi] EXCEPT !.Inhib = [inh EXCEPT !.Gi = Max(inh.Gi, lpl.Gi)]]]
        InPool(ni, pi) == pls[pi].StIdx <= ni /\ ni < pls[pi].EdIdx
        (* the last of the pools walked whose range holds neuron ni *)
        Walked(ni) == IF np > 1 THEN {pi \in PIdx(l) : pi >= 1 /\ InPool(ni, pi)}
                                ELSE {pi \in {0} : InPool(ni, pi)}
        Last(S) == CHOOSE pi \in S : \A pj \in S : pj <= pi
    IN [l EXCEPT !.Pools = pls,
                 !.Neurons = [ni \in NIdx(l) |->
                    LET nrn == l.Neurons[ni]
                        self == SelfInhib(l, nrn.GiSelf, nrn.Act)
                    IN IF IsOff(nrn) \/ Walked(ni) = {} THEN nrn
                       ELSE [nrn EXCEPT !.GiSelf = self,
                                        !.Gi = pls[Last(Walked(ni))].Inhib.Gi + self + nrn.GiSyn]]]

(* ActParams.InetFmG *)
ActInetFmG(vm, ge, gi, gk) ==
    FMul(ge, ActParams.Erev.E - vm) + FMul(ActParams.Gbar.L, ActParams.Erev.L - vm) + FMul(gi, ActParams.Erev.I - vm)

(* ActParams.VmFmG *)
ActVmFmG(l, nrn) ==
    LET ge == FMul(nrn.Ge, ActParams.Gbar.E)
        gi == FMul(nrn.Gi, ActParams.Gbar.I)
        inet == ActInetFmG(nrn.Vm, ge, gi, 0)
        nwVm == nrn.Vm + FMul(l.VmDt, inet)
                    + IF l.Noise # "NoNoise" /\ l.NoiseTyp = "VmNoise" THEN nrn.Noise ELSE 0
    IN [nrn EXCEPT !.Inet = inet, !.Vm = ClipVal(ActParams.VmRange.Min, ActParams.VmRange.Max, nwVm)]

(* ActParams.ActFmG: nw is what NoisyXX1 gives for the neuron.  The        *)
(* variant goes through the transfer function whatever the clamp.          *)
ActActFmG_NoClamp(l, nrn, nw) ==
    LET curAct == nrn.Act
        nwAct == curAct + FMul(l.VmDt, nw - curAct)
    IN [nrn EXCEPT !.ActDel = nwAct - curAct,
                   !.Act = nwAct + IF l.Noise # "NoNoise" /\ l.NoiseTyp = "ActNoise"
                                    THEN nrn.Noise ELSE 0]

ActActFmG(l, nrn, nw) ==
    IF ActHasHardClamp(l, nrn) THEN ActHardClamp(l, nrn)
    ELSE LET curAct == nrn.Act
             nwAct == curAct + FMul(l.VmDt, nw - curAct)
         IN [nrn EXCEPT !.ActDel = nwAct - curAct,
                        !.Act = nwAct + IF l.Noise # "NoNoise" /\ l.NoiseTyp = "ActNoise"
                                         THEN nrn.Noise ELSE 0]

(* Layer.ActFmG: nw[ni] is what NoisyXX1 gives for neuron ni *)
ActFmG(l, nw) ==
    [l EXCEPT !.Neurons = [ni \in NIdx(l) |->
                            IF IsOff(l.Neurons[ni]) THEN l.Neurons[ni]
                            ELSE ActActFmG(l, ActVmFmG(l, l.Neurons[ni]), nw[ni])]]

(* Layer.AvgMaxAct *)
RECURSIVE AvgMaxActLoop(_, _, _, _)
AvgMaxActLoop(nrns, ni, ed, am) ==
    IF ni >= ed THEN am
    ELSE IF IsOff(nrns[ni]) THEN AvgMaxActLoop(nrns, ni + 1, ed, am)
    ELSE AvgMaxActLoop(nrns, ni + 1, ed, AvgMaxUpdateVal(am, nrns[ni].Act, ni))

AvgMaxAct(l) ==
    [l EXCEPT !.Pools = [pi \in PIdx(l) |->
        [l.Pools[pi] EXCEPT !.Act =
            AvgMaxCalcAvg(AvgMaxActLoop(l.Neurons, l.Pools[pi].StIdx, l.Pools[pi].EdIdx,
                                        AvgMaxInit))]]]

(* The sum of f over the set S *)
RECURSIVE SumOver(_, _)
SumOver(S, f) ==
    IF S = {} THEN 0
    ELSE LET x == CHOOSE y \in S : TRUE IN f[x] + SumOver(S \ {x}, f)

(* The whole part of the square root *)
RECURSIVE SqrtFrom(_, _)
SqrtFrom(n, r) == IF (r + 1) * (r + 1) > n THEN r ELSE SqrtFrom(n, r + 1)

Sqrt(n) == SqrtFrom(n, 0)

(* Layer.CosDiffFmActs.  cosv, ssm and ssp are sums of products of two     *)
(* numbers and so is dist; the quotient of cosv and dist is a number.      *)
(* The variant of the sums leaves the activations in cosv as they are; the *)
(* variant of the pass gives the cosine distance.                          *)
CosSums_Raw(l) ==
    LET avgM == l.Pools[0].ActM.Avg
        avgP == l.Pools[0].ActP.Avg
        on == {ni \in NIdx(l) : ~IsOff(l.Neurons[ni])}
        ap == [ni \in NIdx(l) |-> l.Neurons[ni].ActP - avgP]
        am == [ni \in NIdx(l) |-> l.Neurons[ni].ActM - avgM]
    IN [cosv |-> SumOver(on, [ni \in NIdx(l) |-> l.Neurons[ni].ActP * l.Neurons[ni].ActM]),
        ssm |-> SumOver(on, [ni \in NIdx(l) |-> am[ni] * am[ni]]),
        ssp |-> SumOver(on, [ni \in NIdx(l) |-> ap[ni] * ap[ni]])]

CosSums(l) ==
    LET avgM == l.Pools[0].ActM.Avg
        avgP == l.Pools[0].ActP.Avg
        on == {ni \in NIdx(l) : ~IsOff(l.Neurons[ni])}
        ap == [ni \in NIdx(l) |-> l.Neurons[ni].ActP - avgP]
        am == [ni \in NIdx(l) |-> l.Neurons[ni].ActM - avgM]
    IN [cosv |-> SumOver(on, [ni \in NIdx(l) |-> ap[ni] * am[ni]]),
        ssm |-> SumOver(on, [ni \in NIdx(l) |-> am[ni] * am[ni]]),
        ssp |-> SumOver(on, [ni \in NIdx(l) |-> ap[ni] * ap[ni]])]

CosDiffFmActs_Dist(l) ==
    LET c == CosSums(l)
        dist == Sqrt(c.ssm * c.ssp)
    IN [l EXCEPT !.CosDiff.Cos = IF dist # 0 THEN One - FDiv(c.cosv, dist) ELSE c.cosv]

CosDiffFmActs(l) ==
    LET c == CosSums(l)
        dist == Sqrt(c.ssm * c.ssp)
    IN [l EXCEPT !.CosDiff.Cos = IF dist # 0 THEN FDiv(c.cosv, dist) ELSE c.cosv]

(* Layer.QuarterFinal; the variant clamps the targets at the end of the    *)
(* last quarter.                                                           *)
QuarterFinal_Q3(l, quarter) ==
    LET q == [l EXCEPT
                !.Pools = [pi \in PIdx(l) |->
                            [l.Pools[pi] EXCEPT
                                !.ActM = IF quarter = 2 THEN l.Pools[pi].Act ELSE @,
                                !.ActP = IF quarter = 3 THEN l.Pools[pi].Act ELSE @]],
                !.Neurons = [ni \in NIdx(l) |->
                            LET nrn == l.Neurons[ni] IN
                            IF IsOff(nrn) THEN nrn
                            ELSE [nrn EXCEPT
                                    !.ActQ1 = IF quarter = 0 THEN nrn.Act ELSE @,
                                    !.ActQ2 = IF quarter = 1 THEN nrn.Act ELSE @,
                                    !.ActM = IF quarter = 2 THEN nrn.Act ELSE @,
                                    !.Ext = IF quarter = 3 /\ nrn.HasTarg THEN nrn.Targ ELSE @,
                                    !.HasExt = IF quarter = 3 /\ nrn.HasTarg THEN TRUE ELSE @,
                                    !.ActP = IF quarter = 3 THEN nrn.Act ELSE @]]]
    IN IF quarter = 3 THEN CosDiffFmActs(q) ELSE q

QuarterFinal(l, quarter) ==
    LET q == [l EXCEPT
                !.Pools = [pi \in PIdx(l) |->
                            [l.Pools[pi] EXCEPT
                                !.ActM = IF quarter = 2 THEN l.Pools[pi].Act ELSE @,
                                !.ActP = IF quarter = 3 THEN l.Pools[pi].Act ELSE @]],
                !.Neurons = [ni \in NIdx(l) |->
                            LET nrn == l.Neurons[ni] IN
                            IF IsOff(nrn) THEN nrn
                            ELSE [nrn EXCEPT
                                    !.ActQ1 = IF quarter = 0 THEN nrn.Act ELSE @,
                                    !.ActQ2 = IF quarter = 1 THEN nrn.Act ELSE @,
                                    !.ActM = IF quarter = 2 THEN nrn.Act ELSE @,
                                    !.Ext = IF quarter = 2 /\ nrn.HasTarg THEN nrn.Targ ELSE @,
                                    !.HasExt = IF quarter = 2 /\ nrn.HasTarg THEN TRUE ELSE @,
                                    !.ActP = IF quarter = 3 THEN nrn.Act ELSE @]]]
    IN IF quarter = 3 THEN CosDiffFmActs(q) ELSE q

(* Layer.UnLesionNeurons *)
UnLesionNeurons(l) ==
    [l EXCEPT !.Neurons = [ni \in NIdx(l) |-> [l.Neurons[ni] EXCEPT !.Off = FALSE]]]

(* Layer.LesionNeurons: first is the set of the first nl entries of the   *)
(* permutation; the variant leaves the earlier lesion in place.            *)
LesionNeurons_Keep(l, prop, first) ==
    LET nn == Cardinality(NIdx(l))
        nl == ToInt(prop * nn)
    IN IF prop > One THEN [ly |-> l, ret |-> 0]
       ELSE IF nn = 0 THEN [ly |-> l, ret |-> 0]
       ELSE [ly |-> [l EXCEPT !.Neurons = [ni \in NIdx(l) |->
                        IF ni \in first THEN [l.Neurons[ni] EXCEPT !.Off = TRUE]
                                        ELSE l.Neurons[ni]]],
             ret |-> nl]

LesionNeurons(l, prop, first) ==
    LET u == UnLesionNeurons(l)
        nn == Cardinality(NIdx(u))
        nl == ToInt(prop * nn)
    IN IF prop > One THEN [ly |-> u, ret |-> 0]
       ELSE IF nn = 0 THEN [ly |-> u, ret |-> 0]
       ELSE [ly |-> [u EXCEPT !.Neurons = [ni \in NIdx(u) |->
                        IF ni \in first THEN [u.Neurons[ni] EXCEPT !.Off = TRUE]
                                        ELSE u.Neurons[ni]]],
             ret |-> nl]

(* The sets that the first nl entries of a permutation of 0..nn-1 can be *)
PermFirst(nn, nl) ==
    {S \in SUBSET (0..(nn - 1)) : Cardinality(S) = IF nl < 0 THEN 0 ELSE nl}

-----------------------------------------------------------------------------
(* ThrLayFun: one task per active layer, joined before the call returns.   *)

ActiveLayers == {l \in Layers : ~layOff[l]}

Idle == prog = <<>>

ThrLayFunDispatch ==
    /\ prog # <<>>
    /\ fan = "closed"
    /\ fan' = "open"
    /\ task' = [l \in Layers |-> IF layOff[l] THEN "none" ELSE "wait"]
    /\ fnIdx' = [l \in Layers |-> 0]
    /\ UNCHANGED <<layVars, synVars, drvVars, balVars, layOff, prog, ltrace, cycN, geStamp, actStamp, inhibStamp>>

CurFn(l) == Head(prog)[fnIdx[l]]

TaskStart(l) ==
    /\ fan = "open"
    /\ task[l] = "wait"
    /\ task' = [task EXCEPT ![l] = "run"]
    /\ fnIdx' = [fnIdx EXCEPT ![l] = 1]
    /\ UNCHANGED <<layVars, synVars, drvVars, balVars, layOff, prog, fan, ltrace, cycN, geStamp, actStamp, inhibStamp>>

(* The layer function CurFn(l) of layer l returns; the closure goes on to  *)
(* its next function, if any.                                              *)
TaskStep(l) ==
    /\ fan = "open"
    /\ task[l] = "run"
    /\ LET f == CurFn(l) IN
        /\ ltrace' = [ltrace EXCEPT ![l] = Append(@, f)]
        /\ geStamp' = IF f = "AvgMaxGe" THEN [geStamp EXCEPT ![l] = cycN] ELSE geStamp
        /\ actStamp' = IF f = "AvgMaxAct" THEN [actStamp EXCEPT ![l] = cycN] ELSE actStamp
        /\ inhibStamp' = IF f = "InhibFmGeAct"
                            THEN [inhibStamp EXCEPT ![l] = <<geStamp[l], actStamp[l]>>]
                            ELSE inhibStamp
    /\ IF fnIdx[l] < Len(Head(prog))
          THEN /\ fnIdx' = [fnIdx EXCEPT ![l] = @ + 1]
               /\ task' = task
          ELSE /\ fnIdx' = fnIdx
               /\ task' = [task EXCEPT ![l] = "done"]
    /\ UNCHANGED <<layVars, synVars, drvVars, balVars, layOff, prog, fan, cycN>>

ThrLayFunJoin ==
    /\ fan = "open"
    /\ \A l \in Layers : task[l] \in {"none", "done"}
    /\ fan' = "closed"
    /\ prog' = Tail(prog)
    /\ task' = [l \in Layers |-> "none"]
    /\ fnIdx' = [l \in Layers |-> 0]
    /\ UNCHANGED <<layVars, synVars, drvVars, balVars, layOff, ltrace, cycN, geStamp, actStamp, inhibStamp>>

-----------------------------------------------------------------------------
(* Sim.AlphaCyc *)

Learns_NotTest(st) == st # "test"

Learns(st) == st = "train"

DrvAlphaCycInit ==
    /\ pc = "init"
    /\ Idle
    /\ log' = Append(log, "AlphaCycInit")
    /\ WtBalCtr' = NetAlphaCycInitCtr(WtBalCtr)
    /\ qtr' = 0
    /\ cyc' = 0
    /\ pc' = IF CycPerQtr > 0 THEN "cyc" ELSE "qf"
    /\ UNCHANGED <<layVars, synVars, state, netVars, WtBalInterval, nWtFmDWt, nWtBal, balFired, lastOp, nOps>>

DrvCycle ==
    /\ pc = "cyc"
    /\ Idle
    /\ log' = Append(log, "Cycle")
    /\ prog' = NetCycle(FALSE)
    /\ cycN' = cycN + 1
    /\ ltrace' = [l \in Layers |-> <<>>]
    /\ pc' = "aftercyc"
    /\ UNCHANGED <<layVars, synVars, state, qtr, cyc, balVars, layOff, fan, task, fnIdx, geStamp, actStamp, inhibStamp>>

DrvAfterCycle ==
    /\ pc = "aftercyc"
    /\ Idle
    /\ cyc' = cyc + 1
    /\ pc' = IF cyc + 1 < CycPerQtr THEN "cyc" ELSE "qf"
    /\ UNCHANGED <<layVars, synVars, state, qtr, log, netVars, balVars>>

DrvQuarterFinal ==
    /\ pc = "qf"
    /\ Idle
    /\ log' = Append(log, "QuarterFinal")
    /\ prog' = NetQuarterFinal
    /\ pc' = "afterqf"
    /\ UNCHANGED <<layVars, synVars, state, qtr, cyc, balVars, layOff, fan, task, fnIdx, ltrace, cycN,
                   geStamp, actStamp, inhibStamp>>

DrvAfterQuarter ==
    /\ pc = "afterqf"
    /\ Idle
    /\ qtr' = qtr + 1
    /\ cyc' = 0
    /\ pc' = IF qtr + 1 < NQuarters
                THEN (IF CycPerQtr > 0 THEN "cyc" ELSE "qf")
                ELSE (IF Learns(state) THEN "dwt" ELSE "ret")
    /\ UNCHANGED <<layVars, synVars, state, log, netVars, balVars>>

DrvDWt ==
    /\ pc = "dwt"
    /\ Idle
    /\ log' = Append(log, "DWt")
    /\ prog' = NetDWt
    /\ pc' = "wtfmdwt"
    /\ UNCHANGED <<layVars, synVars, state, qtr, cyc, balVars, layOff, fan, task, fnIdx, ltrace, cycN,
                   geStamp, actStamp, inhibStamp>>

(* Network.WtFmDWt, first half: the ThrLayFun call of Layer.WtFmDWt *)
DrvWtFmDWt ==
    /\ pc = "wtfmdwt"
    /\ Idle
    /\ log' = Append(log, "WtFmDWt")
    /\ prog' = << <<"WtFmDWt">> >>
    /\ pc' = "wtbal"
    /\ UNCHANGED <<layVars, synVars, state, qtr, cyc, balVars, layOff, fan, task, fnIdx, ltrace, cycN,
                   geStamp, actStamp, inhibStamp>>

(* Network.WtFmDWt, second half: the counter and the weight-balance pass *)
DrvWtBal ==
    /\ pc = "wtbal"
    /\ Idle
    /\ LET r == WtBalStep(WtBalCtr, WtBalInterval) IN
        /\ WtBalCtr' = r.ctr
        /\ balFired' = r.fire
        /\ nWtBal' = IF r.fire THEN nWtBal + 1 ELSE nWtBal
        /\ prog' = IF r.fire THEN NetWtBalFmWt ELSE <<>>
    /\ nWtFmDWt' = nWtFmDWt + 1
    /\ pc' = "ret"
    /\ UNCHANGED <<layVars, synVars, state, qtr, cyc, log, WtBalInterval, lastOp, nOps, layOff, fan, task,
                   fnIdx, ltrace, cycN, geStamp, actStamp, inhibStamp>>

DrvReturn ==
    /\ pc = "ret"
    /\ Idle
    /\ pc' = "done"
    /\ UNCHANGED <<layVars, synVars, state, qtr, cyc, log, netVars, balVars>>

-----------------------------------------------------------------------------
(* Sim.SleepCyc *)

DrvSleepCycInit ==
    /\ pc = "slpinit"
    /\ Idle
    /\ log' = Append(log, "SleepCycInit")
    /\ cyc' = 0
    /\ pc' = IF MaxSlpCyc > 0 THEN "slp" ELSE "ret"
    /\ UNCHANGED <<layVars, synVars, state, qtr, netVars, balVars>>

(* One turn of the loop of Sim.SleepCyc up to its call of Network.Cycle *)
DrvSleepCycle ==
    /\ pc = "slp"
    /\ Idle
    /\ log' = log \o (IF (cyc + 1) % InitGIncEvery = 0 THEN <<"InitGInc">> ELSE <<>>)
                  \o (IF SimInhibOscil THEN <<"InhibOscil">> ELSE <<>>)
                  \o <<"Cycle">>
    /\ prog' = NetCycle(TRUE)
    /\ cycN' = cycN + 1
    /\ ltrace' = [l \in Layers |-> <<>>]
    /\ pc' = "afterslp"
    /\ UNCHANGED <<layVars, synVars, state, qtr, cyc, balVars, layOff, fan, task, fnIdx, geStamp, actStamp, inhibStamp>>

DrvAfterSleepCycle ==
    /\ pc = "afterslp"
    /\ Idle
    /\ cyc' = cyc + 1
    /\ pc' = IF cyc + 1 < MaxSlpCyc THEN "slp" ELSE "ret"
    /\ UNCHANGED <<layVars, synVars, state, qtr, log, netVars, balVars>>

-----------------------------------------------------------------------------
(* Specification Spec: one run of AlphaCyc or of SleepCyc on a built       *)
(* network, for every argument and every set of layers switched off.       *)

States == {"train", "test", "sleep", "slpcyc"}

Init ==
    /\ state \in States
    /\ pc = IF state = "slpcyc" THEN "slpinit" ELSE "init"
    /\ qtr = 0
    /\ cyc = 0
    /\ log = <<>>
    /\ layOff \in [Layers -> BOOLEAN]
    /\ prog = <<>>
    /\ fan = "closed"
    /\ task = [l \in Layers |-> "none"]
    /\ fnIdx = [l \in Layers |-> 0]
    /\ ltrace = [l \in Layers |-> <<>>]
    /\ cycN = 0
    /\ geStamp = [l \in Layers |-> 0]
    /\ actStamp = [l \in Layers |-> 0]
    /\ inhibStamp = [l \in Layers |-> <<0, 0>>]
    /\ WtBalInterval = WtBalIntervalDef
    /\ WtBalCtr = 0
    /\ nWtFmDWt = 0
    /\ nWtBal = 0
    /\ balFired = FALSE
    /\ lastOp = "InitWts"
    /\ nOps = 0
    /\ LayNone

Next ==
    \/ ThrLayFunDispatch
    \/ \E l \in Layers : TaskStart(l)
    \/ \E l \in Layers : TaskStep(l)
    \/ ThrLayFunJoin
    \/ DrvAlphaCycInit
    \/ DrvCycle
    \/ DrvAfterCycle
    \/ DrvQuarterFinal
    \/ DrvAfterQuarter
    \/ DrvDWt
    \/ DrvWtFmDWt
    \/ DrvWtBal
    \/ DrvReturn
    \/ DrvSleepCycInit
    \/ DrvSleepCycle
    \/ DrvAfterSleepCycle

Spec == Init /\ [][Next]_vars

-----------------------------------------------------------------------------
(* Specification SpecWtBal: the exported methods of Network that touch the *)
(* weight-balance counter, called in any order.                            *)

InitBal ==
    /\ state = "train"
    /\ pc = "done"
    /\ qtr = 0
    /\ cyc = 0
    /\ log = <<>>
    /\ layOff = [l \in Layers |-> FALSE]
    /\ prog = <<>>
    /\ fan = "closed"
    /\ task = [l \in Layers |-> "none"]
    /\ fnIdx = [l \in Layers |-> 0]
    /\ ltrace = [l \in Layers |-> <<>>]
    /\ cycN = 0
    /\ geStamp = [l \in Layers |-> 0]
    /\ actStamp = [l \in Layers |-> 0]
    /\ inhibStamp = [l \in Layers |-> <<0, 0>>]
    /\ WtBalInterval \in 1..MaxInterval
    /\ WtBalCtr = 0
    /\ nWtFmDWt = 0
    /\ nWtBal = 0
    /\ balFired = FALSE
    /\ lastOp = "InitWts"
    /\ nOps = 0
    /\ LayNone

(* Network.InitWts *)
BalInitWts ==
    /\ nOps < MaxOps
    /\ WtBalCtr' = 0
    /\ nWtFmDWt' = 0
    /\ nWtBal' = 0
    /\ balFired' = FALSE
    /\ lastOp' = "InitWts"
    /\ nOps' = nOps + 1
    /\ UNCHANGED <<layVars, synVars, WtBalInterval, drvVars, netVars>>

(* Network.WtFmDWt *)
BalWtFmDWt ==
    /\ nOps < MaxOps
    /\ LET r == WtBalStep(WtBalCtr, WtBalInterval) IN
        /\ WtBalCtr' = r.ctr
        /\ balFired' = r.fire
        /\ nWtBal' = IF r.fire THEN nWtBal + 1 ELSE nWtBal
    /\ nWtFmDWt' = nWtFmDWt + 1
    /\ lastOp' = "WtFmDWt"
    /\ nOps' = nOps + 1
    /\ UNCHANGED <<layVars, synVars, WtBalInterval, drvVars, netVars>>

(* Network.AlphaCycInit *)
BalAlphaCycInit ==
    /\ nOps < MaxOps
    /\ WtBalCtr' = NetAlphaCycInitCtr(WtBalCtr)
    /\ lastOp' = "AlphaCycInit"
    /\ nOps' = nOps + 1
    /\ UNCHANGED <<layVars, synVars, WtBalInterval, nWtFmDWt, nWtBal, balFired, drvVars, netVars>>

NextBal ==
    \/ BalInitWts
    \/ BalWtFmDWt
    \/ BalAlphaCycInit

SpecWtBal == InitBal /\ [][NextBal]_vars

-----------------------------------------------------------------------------
(* Specification SpecBuild: Layer.Build on a layer of any shape of 2 or 4  *)
(* dimensions, with and without Inhib.Pool.On.                             *)

NetIdle ==
    /\ state = "train"
    /\ pc = "done"
    /\ qtr = 0
    /\ cyc = 0
    /\ log = <<>>
    /\ layOff = [l \in Layers |-> FALSE]
    /\ prog = <<>>
    /\ fan = "closed"
    /\ task = [l \in Layers |-> "none"]
    /\ fnIdx = [l \in Layers |-> 0]
    /\ ltrace = [l \in Layers |-> <<>>]
    /\ cycN = 0
    /\ geStamp = [l \in Layers |-> 0]
    /\ actStamp = [l \in Layers |-> 0]
    /\ inhibStamp = [l \in Layers |-> <<0, 0>>]
    /\ WtBalInterval = WtBalIntervalDef
    /\ WtBalCtr = 0
    /\ nWtFmDWt = 0
    /\ nWtBal = 0
    /\ balFired = FALSE
    /\ nOps = 0

NetNone ==
    /\ SynNone
    /\ NetIdle

InitBuild ==
    /\ NetNone
    /\ lastOp = "New"
    /\ \E shp \in Shapes2D \cup Shapes4D : \E on \in BOOLEAN :
        ly = NewLayer(shp, on, "NoNoise", FALSE)
    /\ lpc = "new"
    /\ lret = 0
    /\ larg = 0

LayBuild ==
    /\ lpc = "new"
    /\ LET b == Build(ly) IN
        /\ ly' = b.ly
        /\ lpc' = IF b.ok THEN "built" ELSE "err"
    /\ lastOp' = "Build"
    /\ UNCHANGED <<lret, larg, synVars, drvVars, netVars, WtBalInterval, WtBalCtr, nWtFmDWt,
                   nWtBal, balFired, nOps>>

NextBuild == LayBuild

SpecBuild == InitBuild /\ [][NextBuild]_vars

-----------------------------------------------------------------------------
(* Specification SpecLayer: the exported passes of a built layer, called   *)
(* in any order, MaxLayOps calls at most.                                  *)

LayShapes == {<<1, n>> : n \in 1..MaxUnits} \cup {<<n, 1, 1, 1>> : n \in 1..MaxUnits}

NUnits(l) == Cardinality(NIdx(l))

InitLayer ==
    /\ NetNone
    /\ lastOp = "Build"
    /\ \E shp \in LayShapes : \E nm \in NoiseModes : \E typ \in {"Hidden", "Input"} :
        ly = Build([NewLayer(shp, Len(shp) = 4, nm, TRUE) EXCEPT !.Typ = typ, !.VmDt = One]).ly
    /\ lpc = "built"
    /\ lret = 0
    /\ larg = 0

(* A call, the max-th at most, of a method op with argument arg that returns ret *)
CalledWithin(max, op, arg, ret) ==
    /\ nOps < max
    /\ nOps' = nOps + 1
    /\ lastOp' = op
    /\ larg' = arg
    /\ lret' = ret
    /\ UNCHANGED <<lpc, drvVars, netVars, WtBalInterval, WtBalCtr, nWtFmDWt, nWtBal, balFired>>

Called(op, arg, ret) ==
    /\ CalledWithin(MaxLayOps, op, arg, ret)
    /\ UNCHANGED synVars

LayLesionNeurons ==
    \E prop \in PropVals :
        \E first \in PermFirst(NUnits(ly), ToInt(prop * NUnits(ly))) :
            LET r == LesionNeurons(ly, prop, first) IN
            /\ Called("LesionNeurons", prop, r.ret)
            /\ ly' = r.ly

LayUnLesionNeurons ==
    /\ Called("UnLesionNeurons", 0, 0)
    /\ ly' = UnLesionNeurons(ly)

LayAlphaCycInit ==
    \E nz \in Patterns(NUnits(ly), NoiseVals) :
        /\ Called("AlphaCycInit", 0, 0)
        /\ ly' = AlphaCycInit(ly, nz)

(* The inputs a caller applies to a layer of nn units: one value for each  *)
(* of the first k units.                                                   *)
ExtInputs(nn) ==
    UNION {{[i \in 1..k |-> p[i - 1]] : p \in Patterns(k, Vals)} : k \in 1..nn}

LayApplyExt ==
    \E ext \in ExtInputs(NUnits(ly)) :
        /\ Called("ApplyExt", 0, 0)
        /\ ly' = ApplyExt1D32(ly, ext)

LaySendGDelta ==
    /\ Called("SendGDelta", 0, 0)
    /\ ly' = SendGDelta(ly)

LayGFmInc ==
    \E ge \in Patterns(NUnits(ly), Vals) : \E nz \in Patterns(NUnits(ly), NoiseVals) :
        /\ Called("GFmInc", 0, 0)
        /\ ly' = GFmInc(ly, ge, [ni \in NIdx(ly) |-> 0], nz)

LayAvgMaxGe ==
    /\ Called("AvgMaxGe", 0, 0)
    /\ ly' = AvgMaxGe(ly)

LayInhibFmGeAct ==
    /\ Called("InhibFmGeAct", 0, 0)
    /\ ly' = InhibFmGeAct(ly)

LayActFmG ==
    \E act \in Patterns(NUnits(ly), Vals) :
        /\ Called("ActFmG", 0, 0)
        /\ ly' = ActFmG(ly, act)

LayAvgMaxAct ==
    /\ Called("AvgMaxAct", 0, 0)
    /\ ly' = AvgMaxAct(ly)

LayQuarterFinal ==
    \E quarter \in 0..(NQuarters - 1) :
        /\ Called("QuarterFinal", quarter, 0)
        /\ ly' = QuarterFinal(ly, quarter)

LayDecayState ==
    \E decay \in DecayVals :
        /\ Called("DecayState", decay, 0)
        /\ ly' = DecayState(ly, decay)

NextLayer ==
    \/ LayLesionNeurons
    \/ LayUnLesionNeurons
    \/ LayApplyExt
    \/ LayAlphaCycInit
    \/ LaySendGDelta
    \/ LayGFmInc
    \/ LayAvgMaxGe
    \/ LayInhibFmGeAct
    \/ LayActFmG
    \/ LayAvgMaxAct
    \/ LayQuarterFinal
    \/ LayDecayState

SpecLayer == InitLayer /\ [][NextLayer]_vars

-----------------------------------------------------------------------------
(* Specification SpecStats: lesioning, the two passes that give the        *)
(* neurons their Ge and Act, the two passes that take the statistics of    *)
(* the pools, and DecayState, called in any order on a layer without noise.*)

InitStats ==
    /\ NetNone
    /\ lastOp = "Build"
    /\ \E shp \in LayShapes :
        ly = Build([NewLayer(shp, Len(shp) = 4, "NoNoise", TRUE) EXCEPT !.VmDt = One]).ly
    /\ lpc = "built"
    /\ lret = 0
    /\ larg = 0

NextStats ==
    \/ LayLesionNeurons
    \/ LayUnLesionNeurons
    \/ LayGFmInc
    \/ LayAvgMaxGe
    \/ LayActFmG
    \/ LayAvgMaxAct
    \/ LayDecayState

SpecStats == InitStats /\ [][NextStats]_vars

-----------------------------------------------------------------------------
(* Specification SpecClamp: an input or a target layer after InitWts, with *)
(* hard or soft clamping and with or without fixed noise on the            *)
(* activation: external input, the start of a trial, the activation pass,  *)
(* the end of a quarter and lesioning, called in any order.                *)

InitClamp ==
    /\ NetNone
    /\ lastOp = "InitActs"
    /\ \E shp \in LayShapes : \E typ \in {"Input", "Target"} : \E hard \in BOOLEAN :
       \E nm \in {"NoNoise", "Fixed"} :
        ly = InitActs(Build([NewLayer(shp, Len(shp) = 4, nm, hard) EXCEPT
                                !.Typ = typ, !.NoiseTyp = "ActNoise"]).ly)
    /\ lpc = "built"
    /\ lret = 0
    /\ larg = 0

LayInitExt ==
    /\ Called("InitExt", 0, 0)
    /\ ly' = InitExt(ly)

NextClamp ==
    \/ LayInitExt
    \/ LayApplyExt
    \/ LayAlphaCycInit
    \/ LayActFmG
    \/ LayQuarterFinal
    \/ LayLesionNeurons

SpecClamp == InitClamp /\ [][NextClamp]_vars

-----------------------------------------------------------------------------
(* Specification SpecInhib: a hidden layer after InitWts, with the layer   *)
(* inhibition on or off, sub-pool inhibition on for a layer of 4           *)
(* dimensions, and self-inhibition (Gi 1, Tau 1) off: the passes of a      *)
(* cycle and lesioning, called in any order, and the caller switching      *)
(* Inhib.Self.On.                                                          *)

MaxInhibOps == 4

InitInhib ==
    /\ NetNone
    /\ lastOp = "InitActs"
    /\ \E shp \in LayShapes : \E lon \in BOOLEAN :
        ly = InitActs(Build([NewLayer(shp, Len(shp) = 4, "NoNoise", TRUE) EXCEPT
                                !.LayerOn = lon,
                                !.SelfGi = One, !.SelfDt = One, !.VmDt = One]).ly)
    /\ lpc = "built"
    /\ lret = 0
    /\ larg = 0

(* A call, within max calls, of the pass op with argument arg that leaves  *)
(* the layer as l                                                          *)
Pass(max, op, arg, l) ==
    /\ CalledWithin(max, op, arg, 0)
    /\ ly' = l
    /\ UNCHANGED synVars

NoNoise(l) == [ni \in NIdx(l) |-> 0]

NextInhib ==
    \/ \E g \in Patterns(NUnits(ly), {One}) :
        Pass(MaxInhibOps, "GFmInc", 0, GFmInc(ly, g, g, NoNoise(ly)))
    \/ Pass(MaxInhibOps, "AvgMaxGe", 0, AvgMaxGe(ly))
    \/ Pass(MaxInhibOps, "InhibFmGeAct", 0, InhibFmGeAct(ly))
    \/ \E act \in Patterns(NUnits(ly), {One}) :
        Pass(MaxInhibOps, "ActFmG", 0, ActFmG(ly, act))
    \/ Pass(MaxInhibOps, "AvgMaxAct", 0, AvgMaxAct(ly))
    \/ \E prop \in {0, One \div 2} :
        \E first \in PermFirst(NUnits(ly), ToInt(prop * NUnits(ly))) :
            Pass(MaxInhibOps, "LesionNeurons", prop, LesionNeurons(ly, prop, first).ly)
    \/ /\ ly' = [ly EXCEPT !.SelfOn = ~ly.SelfOn]
       /\ lastOp' = "SetSelfOn"
       /\ UNCHANGED <<nOps, larg, lret, lpc, drvVars, netVars, synVars>>
       /\ UNCHANGED <<WtBalInterval, WtBalCtr, nWtFmDWt, nWtBal, balFired>>

SpecInhib == InitInhib /\ [][NextInhib]_vars

-----------------------------------------------------------------------------
(* Specification SpecSend: a layer after InitWts with one or two sending   *)
(* projections, the second one off, and the thresholds Send and Delta at   *)
(* their defaults or at 1/2 and 1/4: the activation pass, SendGDelta and   *)
(* lesioning, called in any order.  The ledger gsent keeps what the        *)
(* projections were passed.                                                *)

MaxSendOps == 4

InitSend ==
    /\ \E shp \in LayShapes : \E snd \in {One \div 10, One \div 2} :
       \E dlt \in {One \div 200, One \div 4} : \E off \in {<<FALSE>>, <<FALSE, TRUE>>} :
        ly = InitActs(Build([NewLayer(shp, Len(shp) = 4, "NoNoise", TRUE) EXCEPT
                                !.Send = snd, !.Delta = dlt, !.SndOff = off,
                                !.VmDt = One]).ly)
    /\ gsent = [sp \in DOMAIN ly.SndOff |-> [ni \in NIdx(ly) |-> 0]]
    /\ sy = NewSynapse
    /\ nt = <<>>
    /\ sim = NewSim
    /\ lpc = "built"
    /\ lret = 0
    /\ larg = 0
    /\ NetIdle
    /\ lastOp = "InitActs"

NextSend ==
    \/ \E act \in Patterns(NUnits(ly), 0..One) :
        /\ Pass(MaxSendOps, "ActFmG", 0, ActFmG(ly, act))
    \/ /\ CalledWithin(MaxSendOps, "SendGDelta", 0, 0)
       /\ ly' = SendGDelta(ly)
       /\ gsent' = SendGDeltaPrjns(ly, gsent)
       /\ UNCHANGED <<sy, nt, sim>>
    \/ \E prop \in {0, One \div 2} :
        \E first \in PermFirst(NUnits(ly), ToInt(prop * NUnits(ly))) :
            Pass(MaxSendOps, "LesionNeurons", prop, LesionNeurons(ly, prop, first).ly)

SpecSend == InitSend /\ [][NextSend]_vars

-----------------------------------------------------------------------------
(* Synapse: the calcium trace and the depression factor.  The fields       *)
(* sd_ca_thr, sd_ca_gain and sd_ca_thr_rescale are not exported and no     *)
(* code of Synapse sets them; the comment of the field gives               *)
(* sd_ca_thr_rescale = sd_ca_gain / (1 - sd_ca_thr).                       *)

SynParams(thr, gain, inc, dec, effwt) ==
    [NewSynapse EXCEPT !.sd_ca_thr = thr, !.sd_ca_gain = gain,
                       !.sd_ca_thr_rescale = FDiv(gain, One - thr),
                       !.Ca_inc = inc, !.Ca_dec = dec, !.Effwt = effwt]

(* Synapse.SynDep; the variant returns the factor without squaring it *)
SynDep_NoSquare(s) ==
    IF s.Cai > s.sd_ca_thr THEN One - FMul(s.sd_ca_thr_rescale, s.Cai - s.sd_ca_thr)
    ELSE One

SynDep(s) ==
    LET cao_thr == IF s.Cai > s.sd_ca_thr
                        THEN One - FMul(s.sd_ca_thr_rescale, s.Cai - s.sd_ca_thr)
                        ELSE One
    IN FMul(cao_thr, cao_thr)

(* Synapse.CaUpdt; the variant leaves out the headroom 1 - Cai *)
CaUpdt_NoHeadroom(s, ru_act, su_act) ==
    LET drive == FMul(FMul(ru_act, su_act), s.Effwt)
    IN [s EXCEPT !.Cai = @ + FMul(s.Ca_inc, drive) - FMul(s.Ca_dec, s.Cai)]

CaUpdt(s, ru_act, su_act) ==
    LET drive == FMul(FMul(ru_act, su_act), s.Effwt)
    IN [s EXCEPT !.Cai = @ + FMul(FMul(s.Ca_inc, One - s.Cai), drive) - FMul(s.Ca_dec, s.Cai)]

-----------------------------------------------------------------------------
(* Specification SpecSyn: one synapse with Cai = 0, the threshold in       *)
(* [0, 1/2], the gain in [0, 2], the rates Ca_inc and Ca_dec and the       *)
(* effective weight in [0, 1]: CaUpdt with activations in [0, 1] and       *)
(* SynDep, called in any order.                                            *)

MaxSynOps == 5

InitSyn ==
    /\ NetIdle
    /\ lastOp = "InitWts"
    /\ ly = NewLayer(<<>>, FALSE, "NoNoise", FALSE)
    /\ lpc = "none"
    /\ lret = 0
    /\ larg = 0
    /\ gsent = <<>>
    /\ nt = <<>>
    /\ sim = NewSim
    /\ \E thr \in {0, One \div 4, One \div 2} : \E gain \in {0, One \div 4, One, 2 * One} :
       \E inc \in {0, One \div 4, One} : \E dec \in {0, One \div 4, One} :
       \E effwt \in {One \div 2, One} :
        sy = SynParams(thr, gain, inc, dec, effwt)

NextSyn ==
    \/ \E ru_act \in 0..One : \E su_act \in {One \div 2, One} :
        /\ CalledWithin(MaxSynOps, "CaUpdt", ru_act, 0)
        /\ sy' = CaUpdt(sy, ru_act, su_act)
        /\ UNCHANGED <<ly, gsent, nt, sim>>
    \/ /\ CalledWithin(MaxSynOps, "SynDep", 0, SynDep(sy))
       /\ UNCHANGED <<ly, synVars>>

SpecSyn == InitSyn /\ [][NextSyn]_vars

-----------------------------------------------------------------------------
(* Specification SpecCos: a layer at the end of the minus phase of its     *)
(* first trial (InitWts, an activation pass, with or without the pass over *)
(* the pools after it, QuarterFinal of quarter 2): the activation pass,    *)
(* the pass over the pools, lesioning and QuarterFinal of the last         *)
(* quarter, called in any order.                                           *)

MaxCosOps == 4

InitCos ==
    /\ NetNone
    /\ lastOp = "QuarterFinal"
    /\ \E shp \in LayShapes : \E stats \in BOOLEAN :
        LET l == InitActs(Build([NewLayer(shp, Len(shp) = 4, "NoNoise", FALSE) EXCEPT
                                    !.VmDt = One]).ly)
        IN \E act \in Patterns(NUnits(l), Vals) :
            ly = QuarterFinal(IF stats THEN AvgMaxAct(ActFmG(l, act)) ELSE ActFmG(l, act), 2)
    /\ lpc = "built"
    /\ lret = 0
    /\ larg = 2

NextCos ==
    \/ \E act \in Patterns(NUnits(ly), Vals) :
        Pass(MaxCosOps, "ActFmG", 0, ActFmG(ly, act))
    \/ Pass(MaxCosOps, "AvgMaxAct", 0, AvgMaxAct(ly))
    \/ \E prop \in {0, One \div 2, One} :
        \E first \in PermFirst(NUnits(ly), ToInt(prop * NUnits(ly))) :
            Pass(MaxCosOps, "LesionNeurons", prop, LesionNeurons(ly, prop, first).ly)
    \/ Pass(MaxCosOps, "QuarterFinal", NQuarters - 1, QuarterFinal(ly, NQuarters - 1))

SpecCos == InitCos /\ [][NextCos]_vars

-----------------------------------------------------------------------------
(* Specification SpecInit: a layer after InitWts and the passes of one     *)
(* cycle (GFmInc, AvgMaxGe, InhibFmGeAct, ActFmG, AvgMaxAct): InitActs,    *)
(* DecayState, external input, the activation pass and lesioning, called   *)
(* in any order.                                                           *)

InitInit ==
    /\ NetNone
    /\ lastOp = "AvgMaxAct"
    /\ \E shp \in LayShapes :
        LET l == InitActs(Build([NewLayer(shp, Len(shp) = 4, "NoNoise", FALSE) EXCEPT
                                    !.VmDt = One]).ly)
        IN \E g \in Patterns(NUnits(l), {One}) : \E act \in Patterns(NUnits(l), {One}) :
            ly = AvgMaxAct(ActFmG(InhibFmGeAct(AvgMaxGe(GFmInc(l, g, g, NoNoise(l)))), act))
    /\ lpc = "built"
    /\ lret = 0
    /\ larg = 0

NextInit ==
    \/ Pass(MaxLayOps, "InitActs", 0, InitActs(ly))
    \/ \E decay \in DecayVals :
        Pass(MaxLayOps, "DecayState", decay, DecayState(ly, decay))
    \/ \E ext \in Patterns(NUnits(ly), {One}) :
        Pass(MaxLayOps, "ApplyExt", 0, ApplyExt1D32(ly, [i \in 1..NUnits(ly) |-> ext[i - 1]]))
    \/ \E act \in Patterns(NUnits(ly), {One}) :
        Pass(MaxLayOps, "ActFmG", 0, ActFmG(ly, act))
    \/ \E prop \in {0, One \div 2} :
        \E first \in PermFirst(NUnits(ly), ToInt(prop * NUnits(ly))) :
            Pass(MaxLayOps, "LesionNeurons", prop, LesionNeurons(ly, prop, first).ly)

SpecInit == InitInit /\ [][NextInit]_vars

-----------------------------------------------------------------------------
(* Specification SpecQuery: a built layer with activations, and the        *)
(* unit-value and pool accessors of Layer called with indexes inside and   *)
(* outside the layer.  A call returns val (or pool, the index of the pool  *)
(* pointed to) and err, the numbers the error message gives, <<>> standing *)
(* for nil, or it panics; after a panic the program has stopped.  The      *)
(* argument idx is kept as a tuple, of one number for a 1-dimensional      *)
(* index.                                                                  *)

MaxQueryOps == 3

NeuronVarNames == {"Act", "Ge"}

NeuronVarByName(nrn, varNm) ==
    [val |-> IF varNm = "Act" THEN nrn.Act ELSE nrn.Ge, err |-> <<>>, panic |-> FALSE]

UnitVal1DTry(l, varNm, idx) ==
    LET nn == NUnits(l) IN
    IF idx < 0 \/ idx >= nn THEN [val |-> 0, err |-> <<idx, nn>>, panic |-> FALSE]
    ELSE NeuronVarByName(l.Neurons[idx], varNm)

UnitVal1D(l, varNm, idx) == [UnitVal1DTry(l, varNm, idx) EXCEPT !.err = <<>>]

UnitValTry(l, varNm, idx) ==
    LET fidx == ShpOffset(l.Shp, idx)
        nn == NUnits(l)
    IN IF fidx < 0 \/ fidx >= nn THEN [val |-> 0, err |-> <<fidx, nn>>, panic |-> FALSE]
       ELSE NeuronVarByName(l.Neurons[fidx], varNm)

UnitVal(l, varNm, idx) == [UnitValTry(l, varNm, idx) EXCEPT !.err = <<>>]

(* Layer.Pool: &(ly.Pools[idx]), which panics outside the slice *)
LayerPool(l, idx) ==
    IF idx \in PIdx(l) THEN [pool |-> <<idx>>, err |-> <<>>, panic |-> FALSE]
    ELSE [pool |-> <<>>, err |-> <<>>, panic |-> TRUE]

PoolTry(l, idx) ==
    LET np == Cardinality(PIdx(l)) IN
    IF idx < 0 \/ idx >= np THEN [pool |-> <<>>, err |-> <<idx, np>>, panic |-> FALSE]
    ELSE [pool |-> <<idx>>, err |-> <<>>, panic |-> FALSE]

Idx1D == (-1)..(MaxUnits + 1)

(* A shape-based index of a layer of 2 or of 4 dimensions *)
IdxND(l, a, b) == IF Is4D(l) THEN <<a, 0, b, 0>> ELSE <<a, b>>

InitQuery ==
    /\ NetNone
    /\ lastOp = "ActFmG"
    /\ \E shp \in LayShapes :
        LET l == InitActs(Build([NewLayer(shp, Len(shp) = 4, "NoNoise", FALSE) EXCEPT
                                    !.VmDt = One]).ly)
        IN \E act \in Patterns(NUnits(l), {One \div 2, One}) : ly = ActFmG(l, act)
    /\ lpc = "built"
    /\ lret = [val |-> 0, err |-> <<>>, panic |-> FALSE]
    /\ larg = <<>>

(* A call of the accessor op that returns r *)
Query(op, arg, r) ==
    /\ lpc = "built"
    /\ nOps < MaxQueryOps
    /\ nOps' = nOps + 1
    /\ lastOp' = op
    /\ larg' = arg
    /\ lret' = r
    /\ lpc' = IF r.panic THEN "panic" ELSE lpc
    /\ UNCHANGED <<ly, drvVars, netVars, synVars>>
    /\ UNCHANGED <<WtBalInterval, WtBalCtr, nWtFmDWt, nWtBal, balFired>>

NextQuery ==
    \/ \E v \in NeuronVarNames : \E idx \in Idx1D :
        \/ Query("UnitVal1D", [varNm |-> v, idx |-> <<idx>>], UnitVal1D(ly, v, idx))
        \/ Query("UnitVal1DTry", [varNm |-> v, idx |-> <<idx>>], UnitVal1DTry(ly, v, idx))
    \/ \E v \in NeuronVarNames : \E a \in Idx1D : \E b \in Idx1D :
        LET idx == IdxND(ly, a, b) IN
        \/ Query("UnitVal", [varNm |-> v, idx |-> idx], UnitVal(ly, v, idx))
        \/ Query("UnitValTry", [varNm |-> v, idx |-> idx], UnitValTry(ly, v, idx))
    \/ \E idx \in Idx1D :
        \/ Query("Pool", [idx |-> <<idx>>], LayerPool(ly, idx))
        \/ Query("PoolTry", [idx |-> <<idx>>], PoolTry(ly, idx))
    \/ /\ lpc = "built"
       /\ \E act \in Patterns(NUnits(ly), {One \div 2, One}) :
            Pass(MaxQueryOps, "ActFmG", <<>>, ActFmG(ly, act))

SpecQuery == InitQuery /\ [][NextQuery]_vars

-----------------------------------------------------------------------------
(* Specification SpecOscil: the inhibition gain of a layer under Sleep,    *)
(* InhibOscil, InhibOscilMute and Wake, called in any order, and under a   *)
(* parameter set that writes Inhib.Layer.Gi.  The period of the            *)
(* oscillation is 4 or 8 cycles and its peak and trough are 1.5 and 0.5 of *)
(* the base, or 1 and 1.  log keeps the calls made and the gain            *)
(* Inhib.Layer.Gi had at each call.                                        *)

MaxOscOps == 4

MaxStep == 5

(* math32.Sin(k / per * 2 * Pi), for a period per that divides 8 *)
Sin(k, per) ==
    LET e == (k * 8) \div per
        half == (707 * One) \div 1000
    IN CASE e \in {0, 4} -> 0
         [] e \in {1, 3} -> half
         [] e = 2 -> One
         [] e \in {5, 7} -> 0 - half
         [] e = 6 -> 0 - One

(* FFFBParams.Sleep on Inhib.Layer; the variant leaves GiBase as it is *)
Sleep_NoBase(l) == l

Sleep(l) == [l EXCEPT !.LayerGiBase = l.LayerGi]

(* FFFBParams.InhibOscil on Inhib.Layer *)
InhibOscil(l, step) ==
    LET scal == Sin(step % l.GiOscPer, l.GiOscPer)
        fscal == IF scal > 0 THEN FMul(scal, l.GiOscMax - One) + One
                 ELSE FMul(scal, One - l.GiOscMin) + One
    IN [l EXCEPT !.LayerGi = FMul(l.LayerGiBase, fscal)]

InhibOscilMute(l) == [l EXCEPT !.LayerGi = l.LayerGiBase]

Wake(l) == InhibOscilMute(l)

GiVals == {One, FFFBParams.Gi, 2 * One}

InitOscil ==
    /\ SynNone
    /\ NetIdle
    /\ lastOp = "Build"
    /\ \E per \in {4, 8} : \E osc \in {<<One + One \div 2, One \div 2>>, <<One, One>>} :
       \E gi \in GiVals :
        ly = Build([NewLayer(<<1, 1, 1, 1>>, TRUE, "NoNoise", FALSE) EXCEPT
                        !.LayerGi = gi,
                        !.GiOscPer = per, !.GiOscMax = osc[1], !.GiOscMin = osc[2]]).ly
    /\ lpc = "built"
    /\ lret = 0
    /\ larg = 0

(* A call of op with argument arg that leaves the layer as l *)
Oscil(op, arg, l) ==
    /\ nOps < MaxOscOps
    /\ nOps' = nOps + 1
    /\ lastOp' = op
    /\ larg' = arg
    /\ ly' = l
    /\ log' = Append(log, [op |-> op, Gi |-> ly.LayerGi])
    /\ UNCHANGED <<state, pc, qtr, cyc, netVars, synVars, lpc, lret>>
    /\ UNCHANGED <<WtBalInterval, WtBalCtr, nWtFmDWt, nWtBal, balFired>>

NextOscil ==
    \/ Oscil("Sleep", 0, Sleep(ly))
    \/ \E step \in 0..MaxStep : Oscil("InhibOscil", step, InhibOscil(ly, step))
    \/ Oscil("InhibOscilMute", 0, InhibOscilMute(ly))
    \/ Oscil("Wake", 0, Wake(ly))
    \/ \E gi \in {One, 2 * One} : Oscil("SetParams", gi, [ly EXCEPT !.LayerGi = gi])

SpecOscil == InitOscil /\ [][NextOscil]_vars

-----------------------------------------------------------------------------
(* Specification SpecScale: the running averages of the layers of a        *)
(* network and the scales GScale of its projections (a forward and a back  *)
(* projection between neighbouring layers, as Sim.ConfigNet makes them),   *)
(* under Layer.AlphaCycInit on one layer, Network.AlphaCycInit on the      *)
(* layers in their order in nt.Layers, and trials that leave new phase     *)
(* averages in the pools.  nt.Lay[l] has, of layer l, Off, the number of   *)
(* neurons NNeur and, of Pools[0], ActM.Avg, ActP.Avg and ActAvg;          *)
(* nt.Prjn[p] has, of projection p, Off, whether Typ is emer.Inhib,        *)
(* WtScale, RConNAvgMax.Avg and GScale.                                    *)

MaxScaleOps == 3

(* ActAvgParams: Init 0.25 and Tau 1 or 2, with Dt = 1 / Tau *)
ActAvgParams(tau, fixed) ==
    [Init |-> One \div 4, Fixed |-> fixed, UseFirst |-> TRUE, Dt |-> One \div tau,
     Adjust |-> One]

(* ActAvgParams.EffInit *)
EffInit(aa) == IF aa.Fixed THEN aa.Init ELSE FMul(aa.Adjust, aa.Init)

(* ActAvgParams.AvgFmAct: the new *avg *)
AvgFmAct(aa, avg, act) ==
    IF act = 0 THEN avg
    ELSE IF aa.UseFirst /\ avg = aa.Init THEN avg + FMul(One \div 2, act - avg)
    ELSE avg + FMul(aa.Dt, act - avg)

(* ActAvgParams.EffFmAvg: the new *eff *)
EffFmAvg(aa, avg) == IF aa.Fixed THEN aa.Init ELSE FMul(aa.Adjust, avg)

Min(a, b) == IF a < b THEN a ELSE b

(* int(a * b + .5) of two numbers that are not negative *)
IntHalfUp(a, b) == (2 * a * b + One * One) \div (2 * One * One)

(* WtScaleParams.SLayActScale: the whole number n the scale is 1 over *)
SLayActN(savg, snu, ncon) ==
    LET slayActN == Max(IntHalfUp(savg, snu), 1) IN
    IF ncon = snu THEN slayActN
    ELSE LET rMaxActN == ToInt(Min(ncon, slayActN * One))
             rAvgActN == Max(IntHalfUp(savg, ncon), 1)
         IN Min(rAvgActN + 2, rMaxActN)

(* WtScaleParams.SLayActScale: sc = 1 / float32(n), which is +Inf for n = 0 *)
SLayActScale(savg, snu, ncon) ==
    LET n == SLayActN(savg, snu, ncon) IN
    [n |-> n, inf |-> n = 0, sc |-> IF n = 0 THEN 0 ELSE One \div n]

(* WtScaleParams.FullScale, where the scale is finite *)
FullScale(ws, savg, snu, ncon) ==
    FMul(FMul(ws.Abs, ws.Rel), SLayActScale(savg, snu, ncon).sc)

(* Prjn.IsOff: the projection or one of its layers is off *)
PrjnIsOff(n, p) == n.Prjn[p].Off \/ n.Lay[p[1]].Off \/ n.Lay[p[2]].Off

(* The sum of WtScale.Rel over the active projections into l of one kind *)
TotRel(n, l, inhib) ==
    SumOver({p \in RcvPrjns(l) : ~PrjnIsOff(n, p) /\ n.Prjn[p].Inhib = inhib},
            [p \in Prjns |-> n.Prjn[p].WtScale.Rel])

(* Layer.GScaleFmAvgAct: pj.GScale after the first loop *)
GScaleFull(n, p) ==
    FullScale(n.Prjn[p].WtScale, n.Lay[p[1]].ActPAvgEff, n.Lay[p[1]].NNeur * One,
              n.Prjn[p].NCon)

(* Layer.GScaleFmAvgAct of layer l; the variant is without its second loop *)
GScaleFmAvgAct_NoNorm(n, l) ==
    [n EXCEPT !.Prjn = [p \in Prjns |->
        IF p \in RcvPrjns(l) /\ ~PrjnIsOff(n, p)
            THEN [n.Prjn[p] EXCEPT !.GScale = GScaleFull(n, p)]
            ELSE n.Prjn[p]]]

GScaleFmAvgAct(n, l) ==
    [n EXCEPT !.Prjn = [p \in Prjns |->
        IF p \in RcvPrjns(l) /\ ~PrjnIsOff(n, p)
            THEN LET tot == TotRel(n, l, n.Prjn[p].Inhib) IN
                 [n.Prjn[p] EXCEPT !.GScale = IF tot > 0 THEN FDiv(GScaleFull(n, p), tot)
                                                ELSE GScaleFull(n, p)]
            ELSE n.Prjn[p]]]

(* Layer.AlphaCycInit of layer l: the running averages of its pool and the *)
(* scales of its receiving projections                                     *)
LayAvgsAndScales(n, l) ==
    LET lay == n.Lay[l]
        mavg == AvgFmAct(n.ActAvg, lay.ActMAvg, lay.ActM)
        pavg == AvgFmAct(n.ActAvg, lay.ActPAvg, lay.ActP)
    IN GScaleFmAvgAct([n EXCEPT !.Lay[l].ActMAvg = mavg,
                                !.Lay[l].ActPAvg = pavg,
                                !.Lay[l].ActPAvgEff = EffFmAvg(n.ActAvg, pavg)], l)

(* Network.AlphaCycInit: the layers from the i-th on, in the order of      *)
(* nt.Layers                                                               *)
RECURSIVE NetAlphaCycInitFrom(_, _, _)
NetAlphaCycInitFrom(n, order, i) ==
    IF i > Len(order) THEN n
    ELSE NetAlphaCycInitFrom(IF n.Lay[order[i]].Off THEN n
                             ELSE LayAvgsAndScales(n, order[i]), order, i + 1)

NetAlphaCycInit(n) == NetAlphaCycInitFrom(n, n.Layers, 1)

(* The orders the layers of the network can be in *)
Orders == {o \in [Layers -> Layers] : \A l \in Layers : \E i \in Layers : o[i] = l}

(* The network after Build and InitWts: layer l has 2 * l neurons, the     *)
(* layers in off are off, and the projections are prj.                     *)
NewNet(order, aa, off, prj) ==
    [Layers |-> order,
     ActAvg |-> aa,
     Lay |-> [l \in Layers |->
                [Off |-> l \in off, NNeur |-> 2 * l, ActM |-> 0, ActP |-> 0,
                 ActMAvg |-> aa.Init, ActPAvg |-> aa.Init, ActPAvgEff |-> EffInit(aa)]],
     Prjn |-> prj]

(* The projections: the back projections (to the layer before) with        *)
(* WtScale.Rel rel and inhibitory or not, all of them full (every sending  *)
(* unit connected) or with one connection for a receiving unit, and those  *)
(* in off off.                                                             *)
NewPrjns(rel, inhib, full, off) ==
    [p \in Prjns |->
        [Off |-> p \in off,
         Inhib |-> inhib /\ p[1] > p[2],
         WtScale |-> [Abs |-> One, Rel |-> IF p[1] > p[2] THEN rel ELSE One],
         NCon |-> IF full THEN 2 * p[1] * One ELSE One,
         GScale |-> One]]

(* The average activations of the two phases a trial leaves in the layers *)
TrialAvgs ==
    {[l \in Layers |-> [ActM |-> m, ActP |-> q]] : m \in {0, One \div 2}, q \in {One \div 2, One}}
        \cup {[l \in Layers |-> [ActM |-> (l * One) \div NLayers, ActP |-> One \div l]]}

InitScale ==
    /\ NetIdle
    /\ lastOp = "InitWts"
    /\ ly = NewLayer(<<>>, FALSE, "NoNoise", FALSE)
    /\ lpc = "none"
    /\ lret = 0
    /\ larg = 0
    /\ gsent = <<>>
    /\ sy = NewSynapse
    /\ sim = NewSim
    /\ \E order \in Orders : \E tau \in {1, 2} : \E rel \in {One \div 2, One} :
       \E inhib \in BOOLEAN : \E full \in BOOLEAN :
       \E off \in {<<{}, {}>>, <<{NLayers}, {}>>, <<{}, {<<1, 2>>}>>} :
        nt = NewNet(order, ActAvgParams(tau, FALSE), off[1], NewPrjns(rel, inhib, full, off[2]))

(* A call of op with argument arg that leaves the network as n *)
Scale(op, arg, n) ==
    /\ CalledWithin(MaxScaleOps, op, arg, 0)
    /\ nt' = n
    /\ UNCHANGED <<ly, gsent, sy, sim>>

NextScale ==
    \/ \E l \in Layers :
        /\ ~nt.Lay[l].Off
        /\ Scale("Layer.AlphaCycInit", l, LayAvgsAndScales(nt, l))
    \/ Scale("Network.AlphaCycInit", 0, NetAlphaCycInit(nt))
    \/ \E a \in TrialAvgs :
        Scale("Trial", 0, [nt EXCEPT !.Lay = [l \in Layers |->
                                IF nt.Lay[l].Off THEN nt.Lay[l]
                                ELSE [nt.Lay[l] EXCEPT !.ActM = a[l].ActM,
                                                       !.ActP = a[l].ActP]]])

SpecScale == InitScale /\ [][NextScale]_vars

-----------------------------------------------------------------------------
(* Specification SpecSLay: WtScaleParams.SLayActScale applied to a sending *)
(* average savg in [0, 1], a number of sending units snu of 1 to MaxSnu    *)
(* and an average number of connections ncon in [0, MaxSnu], whole or not. *)

MaxSnu == 3

InitSLay ==
    /\ NetNone
    /\ lastOp = "none"
    /\ ly = NewLayer(<<>>, FALSE, "NoNoise", FALSE)
    /\ lpc = "none"
    /\ lret = [n |-> 0, inf |-> FALSE, sc |-> 0]
    /\ \E savg \in 0..One : \E snu \in 1..MaxSnu : \E ncon \in 0..(MaxSnu * One) :
        larg = [savg |-> savg, snu |-> snu * One, ncon |-> ncon]

NextSLay ==
    /\ lastOp = "none"
    /\ CalledWithin(1, "SLayActScale", larg, SLayActScale(larg.savg, larg.snu, larg.ncon))
    /\ UNCHANGED <<ly, synVars>>

SpecSLay == InitSLay /\ [][NextSLay]_vars

-----------------------------------------------------------------------------
(* Specification SpecStop: the toolbar of the Sim and its training         *)
(* goroutine.  The Train, Train Epoch and Train Run buttons set IsRunning  *)
(* and start Sim.Train, TrainEpoch or TrainRun with a go statement; the    *)
(* Stop button, active while IsRunning, calls Sim.Stop.  The goroutine and *)
(* the handlers interleave at the reads and writes of StopNow and          *)
(* IsRunning.  A run has MaxEpcs epochs of NTrials trials, there are       *)
(* MaxRuns runs, and TestAll runs at every TestInterval-th epoch.          *)
(* SleepTrial, which TrainTrial may call before the trial proper, and      *)
(* the statistics touch none of the fields kept here.                      *)

MaxRuns == 2
MaxEpcs == 2
NTrials == 2
TestInterval == 1

RunLoops == {"Train", "TrainEpoch", "TrainRun"}

(* env.Ctr.Incr: the counter after the increment, and whether it wrapped *)
CtrIncr(cur, max) ==
    IF cur + 1 >= max THEN [Cur |-> 0, over |-> TRUE] ELSE [Cur |-> cur + 1, over |-> FALSE]

SimStop(s) == [s EXCEPT !.StopNow = TRUE]

Stopped(s) == [s EXCEPT !.IsRunning = FALSE]

(* The first statements of Train / TrainEpoch / TrainRun *)
LoopEntry(s) ==
    [s EXCEPT !.StopNow = FALSE,
              !.curEpc = IF s.loop = "TrainEpoch" THEN s.epc ELSE s.curEpc,
              !.curRun = IF s.loop = "TrainRun" THEN s.run ELSE s.curRun]

(* The test of the loop after TrainTrial has returned *)
LoopBreaks(s) ==
    \/ s.StopNow
    \/ s.loop = "TrainEpoch" /\ s.epc # s.curEpc
    \/ s.loop = "TrainRun" /\ s.run # s.curRun

(* TrainTrial up to the test of the epoch counter: TrainEnv.Step, then     *)
(* where it goes on: TestAll, the end of the run, or the trial proper      *)
TrainTrialStep(s) ==
    LET t   == CtrIncr(s.trl, NTrials)
        epc == IF t.over THEN s.epc + 1 ELSE s.epc
    IN  [s EXCEPT !.trl = t.Cur, !.epc = epc, !.qtr = 0,
                  !.late = IF s.req THEN s.late + 1 ELSE s.late,
                  !.tst = -1,
                  !.at = IF t.over /\ epc % TestInterval = 0 THEN "test"
                         ELSE IF t.over /\ epc >= MaxEpcs THEN "runend"
                         ELSE "qtr"]

(* One turn of the loop of TestAll: TestTrial, then the test of the epoch  *)
(* counter of TestEnv and of StopNow                                       *)
TestAllTurn(s) ==
    LET t == CtrIncr(s.tst, NTrials) IN
    IF t.over \/ s.StopNow
    THEN [s EXCEPT !.tst = -1, !.at = IF s.epc >= MaxEpcs THEN "runend" ELSE "qtr"]
    ELSE [s EXCEPT !.tst = t.Cur]

(* RunEnd and TrainEnv.Run.Incr: the training is done, or NewRun *)
RunEndStep(s) ==
    LET r == CtrIncr(s.run, MaxRuns) IN
    IF r.over
    THEN [s EXCEPT !.run = r.Cur, !.StopNow = TRUE, !.at = "check"]
    ELSE [s EXCEPT !.run = r.Cur, !.epc = 0, !.trl = -1, !.at = "check"]

(* One quarter of AlphaCyc; TrialStats follows the last *)
QuarterStep(s) ==
    [s EXCEPT !.qtr = s.qtr + 1, !.at = IF s.qtr + 1 = NQuarters THEN "check" ELSE "qtr"]

CheckStep(s) ==
    IF LoopBreaks(s)
    THEN [Stopped(s) EXCEPT !.at = "idle", !.loop = "none", !.req = FALSE, !.late = 0]
    ELSE [s EXCEPT !.at = "top"]

InitStop ==
    /\ NetIdle
    /\ lastOp = "none"
    /\ ly = NewLayer(<<>>, FALSE, "NoNoise", FALSE)
    /\ lpc = "none"
    /\ lret = 0
    /\ larg = 0
    /\ gsent = <<>>
    /\ sy = NewSynapse
    /\ nt = <<>>
    /\ sim = NewSim

SimStep(op, s) ==
    /\ sim' = s
    /\ lastOp' = op
    /\ UNCHANGED <<drvVars, netVars, layVars, gsent, sy, nt,
                   WtBalInterval, WtBalCtr, nWtFmDWt, nWtBal, balFired, nOps>>

ClickTrain ==
    \E lp \in RunLoops :
        /\ ~sim.IsRunning
        /\ SimStep("Click" \o lp, [sim EXCEPT !.IsRunning = TRUE, !.loop = lp, !.at = "go"])

ClickStop ==
    /\ sim.IsRunning
    /\ SimStep("Stop", [SimStop(sim) EXCEPT !.req = TRUE])

GoLoopEntry ==
    /\ sim.at = "go"
    /\ SimStep(sim.loop, [LoopEntry(sim) EXCEPT !.at = "top"])

GoTrainTrial ==
    /\ sim.at = "top"
    /\ SimStep("TrainTrial", TrainTrialStep(sim))

GoTestAll ==
    /\ sim.at = "test"
    /\ SimStep("TestAll", TestAllTurn(sim))

GoRunEnd ==
    /\ sim.at = "runend"
    /\ SimStep("RunEnd", RunEndStep(sim))

GoQuarter ==
    /\ sim.at = "qtr"
    /\ SimStep("AlphaCyc", QuarterStep(sim))

GoCheck ==
    /\ sim.at = "check"
    /\ SimStep(IF LoopBreaks(sim) THEN "Stopped" ELSE "Continue", CheckStep(sim))

GoNext == GoLoopEntry \/ GoTrainTrial \/ GoTestAll \/ GoRunEnd \/ GoQuarter \/ GoCheck

NextStop == ClickTrain \/ ClickStop \/ GoNext

SpecStop == InitStop /\ [][NextStop]_vars

-----------------------------------------------------------------------------
(* Specification SpecSynVar: Synapse.VarByName and SetVarByName.  The      *)
(* synapse is the whole struct here, a function from the names of its      *)
(* fields, and reflect's Field(i) is the i-th field in declaration order   *)
(* (from 0); Interface and SetFloat panic on a field whose name is not     *)
(* exported, i.e. does not begin with an upper-case letter.                *)

MaxVarOps == 2

SynapseFields ==
    <<"Wt", "LWt", "DWt", "PDW", "Norm", "Moment", "Scale", "SRAvgDp", "Cai", "Rec", "Effwt",
      "Ca_inc", "Ca_dec", "sd_ca_thr", "sd_ca_gain", "sd_ca_thr_rescale">>

SynapseVars ==
    <<"Wt", "LWt", "DWt", "Norm", "Moment", "Scale", "SRAvgDp", "Cai", "Effwt",
      "Ca_inc", "Ca_dec", "sd_ca_thr", "sd_ca_gain", "sd_ca_thr_rescale">>

SynapseVarNames == {SynapseVars[i] : i \in 1..Len(SynapseVars)}

Unexported == {"sd_ca_thr", "sd_ca_gain", "sd_ca_thr_rescale"}

(* SynapseVarsMap[varNm]: the index of varNm in SynapseVars, from 0 *)
SynapseVarsMap(varNm) == (CHOOSE i \in 1..Len(SynapseVars) : SynapseVars[i] = varNm) - 1

(* v.Elem().Field(i): the name of the i-th field of the struct *)
Field(i) == SynapseFields[i + 1]

SynapseVarByName(s, varNm) ==
    IF varNm \notin SynapseVarNames THEN [val |-> 0, ok |-> FALSE, panic |-> FALSE]
    ELSE LET f == Field(SynapseVarsMap(varNm)) IN
         IF f \in Unexported THEN [val |-> 0, ok |-> FALSE, panic |-> TRUE]
         ELSE [val |-> s[f], ok |-> TRUE, panic |-> FALSE]

SynapseSetVarByName(s, varNm, val) ==
    IF varNm \notin SynapseVarNames THEN [sy |-> s, ok |-> FALSE, panic |-> FALSE]
    ELSE LET f == Field(SynapseVarsMap(varNm)) IN
         IF f \in Unexported THEN [sy |-> s, ok |-> FALSE, panic |-> TRUE]
         ELSE [sy |-> [s EXCEPT ![f] = val], ok |-> TRUE, panic |-> FALSE]

(* The names asked for: those of SynapseVars, the two fields SynapseVars    *)
(* leaves out, and a name of no field                                       *)
VarNames == SynapseVarNames \cup {"PDW", "Rec", "Ge"}

InitSynVar ==
    /\ NetIdle
    /\ lastOp = "none"
    /\ ly = NewLayer(<<>>, FALSE, "NoNoise", FALSE)
    /\ lpc = "built"
    /\ lret = [val |-> 0, ok |-> FALSE, panic |-> FALSE]
    /\ larg = [varNm |-> "", val |-> 0]
    /\ gsent = <<>>
    /\ nt = <<>>
    /\ sim = NewSim
    /\ \E base \in {0, One} :
        sy = [f \in {SynapseFields[i] : i \in 1..Len(SynapseFields)} |->
                base + (CHOOSE i \in 1..Len(SynapseFields) : SynapseFields[i] = f)]

SynVarCall(op, arg, r, s) ==
    /\ lpc = "built"
    /\ nOps < MaxVarOps
    /\ nOps' = nOps + 1
    /\ lastOp' = op
    /\ larg' = arg
    /\ lret' = r
    /\ sy' = s
    /\ lpc' = IF r.panic THEN "panic" ELSE lpc
    /\ UNCHANGED <<ly, gsent, nt, sim, drvVars, netVars,
                   WtBalInterval, WtBalCtr, nWtFmDWt, nWtBal, balFired>>

NextSynVar ==
    \/ \E varNm \in VarNames :
        SynVarCall("VarByName", [varNm |-> varNm, val |-> 0], SynapseVarByName(sy, varNm), sy)
    \/ \E varNm \in VarNames : \E val \in {0, 5 * One} :
        LET r == SynapseSetVarByName(sy, varNm, val) IN
        SynVarCall("SetVarByName", [varNm |-> varNm, val |-> val],
                   [val |-> 0, ok |-> r.ok, panic |-> r.panic], r.sy)

SpecSynVar == InitSynVar /\ [][NextSynVar]_vars

-----------------------------------------------------------------------------
(* Specification SpecTrial: the trials of the Sim as one layer of type     *)
(* Input, Target or Compare sees them.  A trial is Sim.ApplyInputs         *)
(* (Network.InitExt, then ApplyExt with the pattern of the environment,    *)
(* which for a layer of one row fills the first units as ApplyExt1D32      *)
(* does) and Sim.AlphaCyc: AlphaCycInit, then NQuarters quarters of        *)
(* CycPerQtr cycles, each quarter closed by QuarterFinal and               *)
(* Time.QuarterInc.  Of a cycle the layer runs ActFmG, where a hard clamp  *)
(* acts, and AvgMaxAct; the other passes write conductances only.  larg    *)
(* is the Time: the trial, ltime.Quarter and the cycle of the quarter.     *)

MaxTrials == 2

InitTrial ==
    /\ NetNone
    /\ lastOp = "InitActs"
    /\ \E n \in 1..MaxUnits : \E typ \in {"Input", "Target", "Compare"} : \E hard \in BOOLEAN :
        ly = InitActs(Build([NewLayer(<<1, n>>, FALSE, "NoNoise", hard) EXCEPT !.Typ = typ]).ly)
    /\ lpc = "built"
    /\ lret = 0
    /\ larg = [trl |-> 0, qtr |-> NQuarters, cyc |-> 0]

TrialStep(op, tm, l) ==
    /\ lpc = "built"
    /\ lastOp' = op
    /\ larg' = tm
    /\ ly' = l
    /\ UNCHANGED <<lpc, lret, nOps, synVars, drvVars, netVars,
                   WtBalInterval, WtBalCtr, nWtFmDWt, nWtBal, balFired>>

SimApplyInputs ==
    /\ lastOp \in {"InitActs", "QuarterFinal"}
    /\ larg.qtr = NQuarters
    /\ larg.trl < MaxTrials
    /\ \E ext \in ExtInputs(NUnits(ly)) :
        TrialStep("ApplyInputs", [trl |-> larg.trl + 1, qtr |-> 0, cyc |-> 0],
                  ApplyExt1D32(InitExt(ly), ext))

SimAlphaCycInit ==
    /\ lastOp = "ApplyInputs"
    /\ TrialStep("AlphaCycInit", larg, AlphaCycInit(ly, [ni \in NIdx(ly) |-> 0]))

SimCycle ==
    /\ lastOp \in {"AlphaCycInit", "Cycle", "QuarterFinal"}
    /\ larg.qtr < NQuarters
    /\ larg.cyc < CycPerQtr
    /\ \E ge \in {0, One} :
        TrialStep("Cycle", [larg EXCEPT !.cyc = @ + 1],
                  AvgMaxAct(ActFmG([ly EXCEPT !.Neurons = [ni \in NIdx(ly) |->
                                        [ly.Neurons[ni] EXCEPT !.Ge = ge]]],
                                   [ni \in NIdx(ly) |-> 0])))

SimQuarterFinal ==
    /\ lastOp = "Cycle"
    /\ larg.cyc = CycPerQtr
    /\ TrialStep("QuarterFinal", [larg EXCEPT !.qtr = @ + 1, !.cyc = 0], QuarterFinal(ly, larg.qtr))

NextTrial == SimApplyInputs \/ SimAlphaCycInit \/ SimCycle \/ SimQuarterFinal

SpecTrial == InitTrial /\ [][NextTrial]_vars

-----------------------------------------------------------------------------
(* Specification SpecWake: the configuration of the network over the       *)
(* sleep trials of the Sim.  Three layers stand for the seven of the       *)
(* example: Input (as Ne, Po), Hidden1 and Output (as Ne_Out, Po_Out);     *)
(* BackRel is WtScale.Rel of the projections of type Back.  The values of  *)
(* the parameter sets are in tenths; a layer keeps the fields of           *)
(* Inhib.Layer under the names of the layer above, so that Sleep,          *)
(* InhibOscil, InhibOscilMute and Wake act on it.  A sheet is applied      *)
(* entry by entry: a selector "Layer" matches every layer, "#Name" the     *)
(* layer of that name, ".Back" the back projections.  nt.pre is the        *)
(* configuration before the last SleepCycInit.                             *)

MaxSleeps == 2

SimLayers == {"Input", "Hidden1", "Output"}

LayTypes == [Input |-> "Input", Hidden1 |-> "Hidden", Output |-> "Target"]

ParamSets ==
    [Base |-> <<[Sel |-> "Layer", Par |-> "Gi", Val |-> 18],
                [Sel |-> ".Back", Par |-> "Rel", Val |-> 2],
                [Sel |-> "#Output", Par |-> "Gi", Val |-> 14],
                [Sel |-> "#Hidden1", Par |-> "Gi", Val |-> 19]>>,
     UnBalIn |-> <<>>,
     DefaultInhib |-> <<[Sel |-> "#Output", Par |-> "Gi", Val |-> 18]>>,
     NoMomentum |-> <<>>,
     Sleep |-> <<[Sel |-> ".Back", Par |-> "Rel", Val |-> 8],
                 [Sel |-> "Layer", Par |-> "GiBase", Val |-> 18],
                 [Sel |-> "Layer", Par |-> "FB", Val |-> 12]>>]

(* FFFBParams.Defaults and WtScaleParams.Defaults, in tenths *)
CfgDefaults(per, osc) ==
    [Lay |-> [l \in SimLayers |->
                [Typ |-> LayTypes[l], LayerGi |-> 18, LayerGiBase |-> 18, FB |-> 10,
                 GiOscPer |-> per, GiOscMax |-> osc[1], GiOscMin |-> osc[2]]],
     BackRel |-> 10]

SelMatches(sel, l) == sel = "Layer" \/ sel = "#" \o l

ApplyParam(c, e) ==
    IF e.Sel = ".Back" THEN [c EXCEPT !.BackRel = e.Val]
    ELSE [c EXCEPT !.Lay = [l \in SimLayers |->
            IF ~SelMatches(e.Sel, l) THEN c.Lay[l]
            ELSE CASE e.Par = "Gi" -> [c.Lay[l] EXCEPT !.LayerGi = e.Val]
                   [] e.Par = "GiBase" -> [c.Lay[l] EXCEPT !.LayerGiBase = e.Val]
                   [] e.Par = "FB" -> [c.Lay[l] EXCEPT !.FB = e.Val]]]

RECURSIVE ApplySheet(_, _, _)
ApplySheet(c, sheet, i) ==
    IF i > Len(sheet) THEN c ELSE ApplySheet(ApplyParam(c, sheet[i]), sheet, i + 1)

SetParamsSet(c, setNm) == ApplySheet(c, ParamSets[setNm], 1)

(* Sim.SetParams: the set Base, then the set the user has chosen *)
SetParams(c, paramSet) ==
    IF paramSet # "Base" THEN SetParamsSet(SetParamsSet(c, "Base"), paramSet)
    ELSE SetParamsSet(c, "Base")

EachLayer(c, F(_)) == [c EXCEPT !.Lay = [l \in SimLayers |-> F(c.Lay[l])]]

SetHidden(l) == [l EXCEPT !.Typ = "Hidden"]

SleepCycInit(c) == EachLayer(EachLayer(SetParamsSet(c, "Sleep"), Sleep), SetHidden)

NetInhibOscil(c, step) ==
    [c EXCEPT !.Lay = [l \in SimLayers |-> InhibOscil(c.Lay[l], step)]]

BackToWake(c) ==
    LET typed == [c EXCEPT !.Lay = [l \in SimLayers |->
                    IF l = "Hidden1" THEN c.Lay[l] ELSE [c.Lay[l] EXCEPT !.Typ = LayTypes[l]]]]
        based == SetParamsSet(typed, "Base")
        muted == IF SimInhibOscil THEN EachLayer(based, InhibOscilMute) ELSE based
    IN EachLayer(muted, Wake)

Cfg(n) == [Lay |-> n.Lay, BackRel |-> n.BackRel]

InitWake ==
    /\ NetIdle
    /\ gsent = <<>>
    /\ sy = NewSynapse
    /\ sim = NewSim
    /\ lastOp = "Init"
    /\ ly = NewLayer(<<>>, FALSE, "NoNoise", FALSE)
    /\ lpc = "none"
    /\ lret = 0
    /\ larg = [slp |-> 0, cyc |-> 0]
    /\ \E per \in {4, 8} : \E osc \in {<<One + One \div 2, One \div 2>>, <<One, One>>} :
       \E ps \in {"Base", "UnBalIn", "DefaultInhib", "NoMomentum"} :
        LET c == SetParams(CfgDefaults(per, osc), ps) IN
        nt = [Lay |-> c.Lay, BackRel |-> c.BackRel, ParamSet |-> ps, pre |-> c]

WakeStep(op, tm, n) ==
    /\ lastOp' = op
    /\ larg' = tm
    /\ nt' = n
    /\ UNCHANGED <<ly, lpc, lret, nOps, gsent, sy, sim, drvVars, netVars,
                   WtBalInterval, WtBalCtr, nWtFmDWt, nWtBal, balFired>>

WithCfg(n, c) == [n EXCEPT !.Lay = c.Lay, !.BackRel = c.BackRel]

SimSleepCycInit ==
    /\ lastOp \in {"Init", "BackToWake"}
    /\ larg.slp < MaxSleeps
    /\ WakeStep("SleepCycInit", [slp |-> larg.slp + 1, cyc |-> 0],
                [WithCfg(nt, SleepCycInit(Cfg(nt))) EXCEPT !.pre = Cfg(nt)])

SimSleepCycle ==
    /\ lastOp \in {"SleepCycInit", "SleepCycle"}
    /\ larg.cyc < MaxSlpCyc
    /\ WakeStep("SleepCycle", [larg EXCEPT !.cyc = @ + 1],
                IF SimInhibOscil THEN WithCfg(nt, NetInhibOscil(Cfg(nt), larg.cyc)) ELSE nt)

SimBackToWake ==
    /\ lastOp \in {"SleepCycInit", "SleepCycle"}
    /\ larg.cyc = MaxSlpCyc
    /\ WakeStep("BackToWake", larg, WithCfg(nt, BackToWake(Cfg(nt))))

NextWake == SimSleepCycInit \/ SimSleepCycle \/ SimBackToWake

SpecWake == InitWake /\ [][NextWake]_vars

-----------------------------------------------------------------------------
(* The claims *)

InCycle == pc \in {"aftercyc", "afterslp"}

Started(l) == Len(ltrace[l]) + (IF task[l] = "run" THEN 1 ELSE 0)

Finished(l) == Len(ltrace[l])

Ran(l, f) == \E i \in 1..Len(ltrace[l]) : ltrace[l][i] = f

\* C1: inside Network.Cycle no active layer has started sub-phase k+1 while
\* another active layer has not finished sub-phase k; in particular no layer
\* runs GFmInc before every active layer has finished SendGDelta.
C1_Barrier ==
    InCycle =>
        \A a \in ActiveLayers : \A b \in ActiveLayers :
            /\ Started(a) <= Finished(b) + 1
            /\ (task[a] = "run" /\ CurFn(a) = "GFmInc") => Ran(b, "SendGDelta")

C1_Witness ==
    /\ InCycle
    /\ \E a \in ActiveLayers : \E b \in ActiveLayers :
        /\ a # b
        /\ task[a] = "run" /\ CurFn(a) = "GFmInc"
        /\ task[b] = "done" /\ Ran(b, "GFmInc")

Conflict(a, b) ==
    \/ Writes(CurFn(a), a) \cap Writes(CurFn(b), b) # {}
    \/ Reads(CurFn(a), a) \cap Writes(CurFn(b), b) # {}

\* C2: in a fanned-out sub-phase of a cycle (CaUpdt and CalSynDep of the sleep
\* mode included) two layer tasks that run at the same time never write the
\* same neuron, pool or projection state, and neither reads what the other
\* writes.
C2_NoRace ==
    InCycle =>
        \A a \in Layers : \A b \in Layers :
            (a # b /\ task[a] = "run" /\ task[b] = "run") => ~Conflict(a, b)

C2_Witness ==
    /\ InCycle
    /\ \E a \in Layers : \E b \in Layers :
        /\ a # b
        /\ task[a] = "run" /\ CurFn(a) = "CalSynDep"
        /\ task[b] = "run" /\ CurFn(b) = "CalSynDep"
        /\ <<"Neurons", b, "Act">> \in Reads("CalSynDep", a)
        /\ <<"Neurons", b, "Act">> \notin Writes("CalSynDep", b)

SixPhases == <<"SendGDelta", "GFmInc", "AvgMaxGe", "InhibFmGeAct", "ActFmG", "AvgMaxAct">>

IsSixPhase(f) == \E i \in 1..Len(SixPhases) : SixPhases[i] = f

IsPrefix(s, t) == Len(s) <= Len(t) /\ SubSeq(t, 1, Len(s)) = s

\* C3: every Network.Cycle runs SendGDelta, GFmInc, AvgMaxGe, InhibFmGeAct,
\* ActFmG, AvgMaxAct exactly once and in this order on every active layer (and
\* nothing on a layer that is off), so that InhibFmGeAct of cycle t reads the
\* pool Ge statistics of cycle t and the pool Act statistics of cycle t-1.
C3_CycleOrder ==
    InCycle =>
        \A l \in Layers :
            IF layOff[l]
                THEN ltrace[l] = <<>>
                ELSE /\ IsPrefix(SelectSeq(ltrace[l], IsSixPhase), SixPhases)
                     /\ Idle => /\ SelectSeq(ltrace[l], IsSixPhase) = SixPhases
                                /\ inhibStamp[l] = <<cycN, cycN - 1>>

C3_Witness ==
    /\ InCycle
    /\ Idle
    /\ cycN >= 2
    /\ \E l \in ActiveLayers : inhibStamp[l] = <<cycN, cycN - 1>> /\ Len(ltrace[l]) >= 6

RECURSIVE Rep(_, _)
Rep(s, n) == IF n = 0 THEN <<>> ELSE s \o Rep(s, n - 1)

ExpectedLog(st) ==
    <<"AlphaCycInit">>
        \o Rep(Rep(<<"Cycle">>, CycPerQtr) \o <<"QuarterFinal">>, NQuarters)
        \o (IF st = "train" THEN <<"DWt", "WtFmDWt">> ELSE <<>>)

\* C4: a run of Sim.AlphaCyc makes one AlphaCycInit, then four times CycPerQtr
\* Cycle calls followed by one QuarterFinal, then DWt and WtFmDWt if and only
\* if the mode is train: at every moment the calls made so far are a prefix
\* of that sequence, and at the return they are the whole of it.
C4_Timeline ==
    state # "slpcyc" =>
        /\ IsPrefix(log, ExpectedLog(state))
        /\ pc = "done" => log = ExpectedLog(state)

C4_Witness ==
    /\ state = "train"
    /\ pc = "done"
    /\ Len(log) = 1 + 4 * (CycPerQtr + 1) + 2

SubPoolsOn(l) == Is4D(l) /\ l.PoolOn

\* C5: after Layer.Build, of a layer of 2 dimensions or of a layer of 4
\* dimensions with Inhib.Pool.On, pool 0 is [0, N); and where there are
\* sub-pools, the ranges of pools 1..NPools follow one another from 0 to N
\* without gap or overlap and SubPool of every neuron is the index of the
\* sub-pool whose range holds it.
C5_PoolsWellFormed ==
    (lpc = "built" /\ (Len(ly.Shp) = 2 \/ SubPoolsOn(ly))) =>
        LET N == ShpLen(ly.Shp)
            np == Cardinality(PIdx(ly))
        IN /\ NUnits(ly) = N
           /\ ly.Pools[0].StIdx = 0 /\ ly.Pools[0].EdIdx = N
           /\ np = IF SubPoolsOn(ly) THEN 1 + NPools(ly) ELSE 1
           /\ np > 1 =>
                /\ ly.Pools[1].StIdx = 0
                /\ ly.Pools[np - 1].EdIdx = N
                /\ \A pi \in 1..(np - 1) : ly.Pools[pi].StIdx <= ly.Pools[pi].EdIdx
                /\ \A pi \in 1..(np - 2) : ly.Pools[pi].EdIdx = ly.Pools[pi + 1].StIdx
                /\ \A ni \in NIdx(ly) :
                    LET sp == ly.Neurons[ni].SubPool IN
                    /\ sp \in 1..(np - 1)
                    /\ ly.Pools[sp].StIdx <= ni /\ ni < ly.Pools[sp].EdIdx

\* C6: after InitWts and n calls of Network.WtFmDWt (WtBalInterval >= 1) the
\* counter is n mod WtBalInterval, within 0..WtBalInterval-1, and WtBalFmWt has
\* run n div WtBalInterval times, each time in the call that brought the
\* counter to the interval.
C6_WtBalCounter ==
    /\ 0 <= WtBalCtr /\ WtBalCtr < WtBalInterval
    /\ WtBalCtr = nWtFmDWt % WtBalInterval
    /\ nWtBal = nWtFmDWt \div WtBalInterval
    /\ lastOp = "WtFmDWt" => (balFired <=> nWtFmDWt % WtBalInterval = 0)

C6_Witness ==
    /\ WtBalInterval >= 2
    /\ nWtFmDWt = 2 * WtBalInterval + 1
    /\ nWtBal = 2
    /\ WtBalCtr = 1

Passes ==
    {"AlphaCycInit", "SendGDelta", "GFmInc", "AvgMaxGe", "InhibFmGeAct", "ActFmG",
     "AvgMaxAct", "QuarterFinal", "DecayState"}

InRange(l, pi) == {ni \in NIdx(l) : l.Pools[pi].StIdx <= ni /\ ni < l.Pools[pi].EdIdx}

ActiveIn(l, pi) == {ni \in InRange(l, pi) : ~l.Neurons[ni].Off}

GeOf(l) == [ni \in NIdx(l) |-> l.Neurons[ni].Ge]

ActOf(l) == [ni \in NIdx(l) |-> l.Neurons[ni].Act]

\* C8: a call of AlphaCycInit, SendGDelta, GFmInc, AvgMaxGe, InhibFmGeAct,
\* ActFmG, AvgMaxAct, QuarterFinal or DecayState leaves every lesioned neuron
\* as it was and the number of neurons as it was, and the Ge and Act
\* statistics that AvgMaxGe and AvgMaxAct leave in a pool count and sum the
\* neurons of the pool that are not lesioned, and no others.
C8_LesionedSkipped ==
    [][(lastOp' \in Passes /\ nOps' = nOps + 1) =>
        /\ NIdx(ly') = NIdx(ly)
        /\ \A ni \in NIdx(ly) : ly.Neurons[ni].Off => ly'.Neurons[ni] = ly.Neurons[ni]
        /\ lastOp' = "AvgMaxGe" =>
            \A pi \in PIdx(ly') :
                /\ ly'.Pools[pi].Ge.N = Cardinality(ActiveIn(ly', pi))
                /\ ly'.Pools[pi].Ge.Sum = SumOver(ActiveIn(ly', pi), GeOf(ly'))
        /\ lastOp' = "AvgMaxAct" =>
            \A pi \in PIdx(ly') :
                /\ ly'.Pools[pi].Act.N = Cardinality(ActiveIn(ly', pi))
                /\ ly'.Pools[pi].Act.Sum = SumOver(ActiveIn(ly', pi), ActOf(ly'))]_vars

NOff(l) == Cardinality({ni \in NIdx(l) : l.Neurons[ni].Off})

\* C9: LesionNeurons(p) with 0 <= p <= 1 on a layer of N neurons leaves
\* floor(p * N) neurons with the Off flag, whatever was lesioned before, and
\* returns that number; after UnLesionNeurons no neuron has the Off flag.
C9_LesionCount ==
    /\ (lastOp = "LesionNeurons" /\ 0 <= larg /\ larg <= One) =>
        /\ NOff(ly) = (larg * NUnits(ly)) \div One
        /\ lret = NOff(ly)
    /\ lastOp = "UnLesionNeurons" => NOff(ly) = 0

C9_Witness ==
    /\ lastOp = "LesionNeurons"
    /\ nOps >= 2
    /\ larg = One \div 2
    /\ NUnits(ly) = 2
    /\ NOff(ly) = 1
    /\ lret = 1

Clipped(v, c) ==
    /\ (ActParams.Clamp.Range.Min <= v /\ v <= ActParams.Clamp.Range.Max) => c = v
    /\ v > ActParams.Clamp.Range.Max => c = ActParams.Clamp.Range.Max
    /\ v < ActParams.Clamp.Range.Min => c = ActParams.Clamp.Range.Min

\* C11: right after ActFmG, with hard clamping, every neuron that is not
\* lesioned and has the NeurHasExt flag has the activation Ext cut into
\* Clamp.Range, and ActDel and Inet zero, whatever the transfer function
\* gives, whatever the rate constant and whatever the noise.
C11_HardClamp ==
    lastOp = "ActFmG" =>
        \A ni \in NIdx(ly) :
            LET nrn == ly.Neurons[ni] IN
            (ly.Hard /\ nrn.HasExt /\ ~nrn.Off) =>
                /\ Clipped(nrn.Ext, nrn.Act)
                /\ nrn.ActDel = 0
                /\ nrn.Inet = 0

C11_Witness ==
    /\ lastOp = "ActFmG"
    /\ ly.Hard
    /\ ly.Noise = "Fixed"
    /\ \E ni \in NIdx(ly) :
        /\ ly.Neurons[ni].HasExt
        /\ ~ly.Neurons[ni].Off
        /\ ly.Neurons[ni].Noise # 0
        /\ ly.Neurons[ni].Ext = One
        /\ ly.Neurons[ni].Act = ActParams.Clamp.Range.Max

\* C12: QuarterFinal with Quarter 2 gives every neuron that is not lesioned
\* and has the NeurHasTarg flag Ext = Targ and the NeurHasExt flag, and
\* leaves Ext and NeurHasExt of every other neuron as they were;
\* QuarterFinal with another Quarter leaves Ext and the flags of every
\* neuron as they were; and with hard clamping every ActFmG leaves a neuron
\* that has both flags and is not lesioned with the activation Targ cut
\* into Clamp.Range.
C12_TargetClamp ==
    /\ [][(lastOp' = "QuarterFinal" /\ nOps' = nOps + 1) =>
            \A ni \in NIdx(ly) :
                LET n == ly.Neurons[ni]
                    m == ly'.Neurons[ni]
                IN /\ m.HasTarg = n.HasTarg
                   /\ m.Targ = n.Targ
                   /\ IF larg' = 2 /\ n.HasTarg /\ ~n.Off
                        THEN m.Ext = n.Targ /\ m.HasExt
                        ELSE m.Ext = n.Ext /\ m.HasExt = n.HasExt]_vars
    /\ [](lastOp = "ActFmG" =>
            \A ni \in NIdx(ly) :
                LET nrn == ly.Neurons[ni] IN
                (ly.Hard /\ nrn.HasTarg /\ nrn.HasExt /\ ~nrn.Off) =>
                    Clipped(nrn.Targ, nrn.Act))

C12_Witness ==
    /\ lastOp = "ActFmG"
    /\ ly.Hard
    /\ ly.Typ = "Target"
    /\ \E ni \in NIdx(ly) :
        /\ ly.Neurons[ni].HasTarg
        /\ ly.Neurons[ni].HasExt
        /\ ~ly.Neurons[ni].Off
        /\ ly.Neurons[ni].Targ = One
        /\ ly.Neurons[ni].Ext = One
        /\ ly.Neurons[ni].Act = ActParams.Clamp.Range.Max

\* C13: right after InhibFmGeAct every sub-pool's Inhib.Gi is at least the
\* layer pool's, every neuron that is not lesioned has Gi = poolGi + GiSelf
\* + GiSyn, poolGi being the larger of the layer pool's gain and the gain
\* of the neuron's own sub-pool in a layer with sub-pools and the layer
\* pool's gain in a layer without, and in a layer without sub-pools with
\* layer, sub-pool and self inhibition off Gi = GiSyn.
C13_GiSum ==
    lastOp = "InhibFmGeAct" =>
        /\ \A pi \in PIdx(ly) : ly.Pools[pi].Inhib.Gi >= ly.Pools[0].Inhib.Gi
        /\ \A ni \in NIdx(ly) :
            LET nrn == ly.Neurons[ni]
                np == Cardinality(PIdx(ly))
                poolGi == IF np > 1
                            THEN Max(ly.Pools[0].Inhib.Gi, ly.Pools[nrn.SubPool].Inhib.GiOrig)
                            ELSE ly.Pools[0].Inhib.Gi
            IN ~nrn.Off =>
                /\ nrn.Gi = poolGi + nrn.GiSelf + nrn.GiSyn
                /\ (np = 1 /\ ~ly.LayerOn /\ ~ly.SelfOn) => nrn.Gi = nrn.GiSyn

\* C14: an InhibFmGeAct pass on a layer with Inhib.Self.On false leaves
\* GiSelf zero in every neuron that is not lesioned.
C14_SelfOffActive ==
    [][(lastOp' = "InhibFmGeAct" /\ nOps' = nOps + 1 /\ ~ly.SelfOn) =>
            \A ni \in NIdx(ly) : ~ly.Neurons[ni].Off => ly'.Neurons[ni].GiSelf = 0]_vars

\* C14 as stated: an InhibFmGeAct pass on a layer with Inhib.Self.On false
\* leaves GiSelf zero in every neuron of the layer.
C14_SelfOffAll ==
    [][(lastOp' = "InhibFmGeAct" /\ nOps' = nOps + 1 /\ ~ly.SelfOn) =>
            \A ni \in NIdx(ly) : ly'.Neurons[ni].GiSelf = 0]_vars

C14_Witness ==
    /\ lastOp = "InhibFmGeAct"
    /\ ~ly.SelfOn
    /\ \E ni \in NIdx(ly) : ly.Neurons[ni].Off /\ ly.Neurons[ni].GiSelf > 0
    /\ \E ni \in NIdx(ly) :
        /\ ~ly.Neurons[ni].Off
        /\ ly.Neurons[ni].Act > 0
        /\ ly.Neurons[ni].GiSelf = 0

\* C15: from ActSent = 0 and through every sequence of activation passes,
\* SendGDelta calls and lesions, with the thresholds Send and Delta fixed:
\* for every neuron the sum of the deltas passed to each sending
\* projection that is not off is the neuron's ActSent (and nothing is
\* passed to a projection that is off); ActSent is 0 or above Send; and
\* right after a SendGDelta call a neuron that is not lesioned and has Act
\* at or below Send has ActSent = 0.
C15_SendLedger ==
    \A ni \in NIdx(ly) :
        LET nrn == ly.Neurons[ni] IN
        /\ \A sp \in DOMAIN gsent :
            gsent[sp][ni] = IF ly.SndOff[sp] THEN 0 ELSE nrn.ActSent
        /\ nrn.ActSent = 0 \/ nrn.ActSent > ly.Send
        /\ (lastOp = "SendGDelta" /\ ~nrn.Off /\ nrn.Act <= ly.Send) => nrn.ActSent = 0

C15_Witness ==
    /\ lastOp = "SendGDelta"
    /\ nOps >= 4
    /\ ly.Send > 0
    /\ \E ni \in NIdx(ly) :
        /\ ~ly.Neurons[ni].Off
        /\ ly.Neurons[ni].Act > 0
        /\ ly.Neurons[ni].Act <= ly.Send
        /\ ly.Neurons[ni].ActSent = 0
    /\ \E ni \in NIdx(ly) :
        /\ ly.Neurons[ni].ActSent > ly.Send
        /\ ly.Neurons[ni].Act # ly.Neurons[ni].ActSent
        /\ \E sp \in DOMAIN gsent : gsent[sp][ni] = ly.Neurons[ni].ActSent

ActiveNeurons == {ni \in NIdx(ly) : ~ly.Neurons[ni].Off}

(* The minus-phase and the plus-phase activations are the same in every    *)
(* neuron that is not lesioned, and so are the averages of the layer pool  *)
SamePhases ==
    /\ \A ni \in ActiveNeurons : ly.Neurons[ni].ActM = ly.Neurons[ni].ActP
    /\ ly.Pools[0].ActM.Avg = ly.Pools[0].ActP.Avg

(* Every neuron that is not lesioned has the minus-phase activation of the *)
(* pool's average (the mean-centred minus-phase vector is zero)            *)
FlatM == \A ni \in ActiveNeurons : ly.Neurons[ni].ActM = ly.Pools[0].ActM.Avg

FlatP == \A ni \in ActiveNeurons : ly.Neurons[ni].ActP = ly.Pools[0].ActP.Avg

AfterCosDiff == lastOp = "QuarterFinal" /\ larg = NQuarters - 1 /\ nOps > 0

\* C18: right after CosDiffFmActs, with the same minus-phase and plus-phase
\* activation in every neuron that is not lesioned and the same averages
\* of the layer pool, CosDiff.Cos is 1 when some such neuron's activation
\* is off the pool's average, and 0 when none is.
C18_SamePhasesOne ==
    (AfterCosDiff /\ SamePhases) => ly.CosDiff.Cos = IF FlatM THEN 0 ELSE One

\* C18 as stated: right after CosDiffFmActs, with the same minus-phase and
\* plus-phase activation in every neuron that is not lesioned and the same
\* averages of the layer pool, CosDiff.Cos is 0.
C18_SamePhasesZero ==
    (AfterCosDiff /\ SamePhases) => ly.CosDiff.Cos = 0

C18_Witness ==
    /\ AfterCosDiff
    /\ SamePhases
    /\ ~FlatM
    /\ Cardinality(ActiveNeurons) > 1
    /\ ly.CosDiff.Cos = One

\* C19: right after CosDiffFmActs, when the mean-centred minus-phase vector
\* or the mean-centred plus-phase vector over the neurons that are not
\* lesioned is zero (no such neuron, or every one at the pool's average),
\* CosDiff.Cos is 0: the division is made only by a norm that is not zero.
C19_ZeroNorm ==
    (AfterCosDiff /\ (FlatM \/ FlatP)) => ly.CosDiff.Cos = 0

C19_Witness ==
    /\ AfterCosDiff
    /\ FlatP
    /\ ~FlatM
    /\ \E ni \in ActiveNeurons : ly.Neurons[ni].ActP > 0
    /\ ly.CosDiff.Cos = 0

\* C20: a DecayState(0) right after InitActs leaves Act, Ge, Gi, GiSelf, Vm,
\* Ext and Targ of every neuron as InitActs left them (Init.Act, Init.Ge,
\* 0, 0, Init.Vm, 0, 0), leaves ActDel, Inet, ActSent, GeRaw, GeInc, GiRaw
\* and GiInc zero, and leaves Act and Inhib of every pool unchanged.
C20_InitThenDecay ==
    [][(lastOp = "InitActs" /\ lastOp' = "DecayState" /\ larg' = 0 /\ nOps' = nOps + 1) =>
            /\ \A ni \in NIdx(ly) :
                LET n == ly.Neurons[ni]
                    m == ly'.Neurons[ni]
                IN /\ m.Act = n.Act /\ m.Act = ActParams.Init.Act
                   /\ m.Ge = n.Ge /\ m.Ge = ActParams.Init.Ge
                   /\ m.Gi = n.Gi /\ m.Gi = 0
                   /\ m.GiSelf = n.GiSelf /\ m.GiSelf = 0
                   /\ m.Vm = n.Vm /\ m.Vm = ActParams.Init.Vm
                   /\ m.Ext = n.Ext /\ m.Ext = 0
                   /\ m.Targ = n.Targ /\ m.Targ = 0
                   /\ m.ActDel = 0 /\ m.Inet = 0 /\ m.ActSent = 0
                   /\ m.GeRaw = 0 /\ m.GeInc = 0 /\ m.GiRaw = 0 /\ m.GiInc = 0
            /\ \A pi \in PIdx(ly) :
                /\ ly'.Pools[pi].Act = ly.Pools[pi].Act
                /\ ly'.Pools[pi].Inhib = ly.Pools[pi].Inhib]_vars

C20_Witness ==
    /\ lastOp = "DecayState"
    /\ larg = 0
    /\ nOps = 2
    /\ ly.Pools[0].Inhib.Gi > 0
    /\ ly.Pools[0].Act.Avg > 0
    /\ \E ni \in NIdx(ly) : ly.Neurons[ni].GiSyn > 0
    /\ \A ni \in NIdx(ly) :
        /\ ly.Neurons[ni].Act = ActParams.Init.Act
        /\ ly.Neurons[ni].Vm = ActParams.Init.Vm
        /\ ly.Neurons[ni].Ge = ActParams.Init.Ge
        /\ ly.Neurons[ni].Ext = 0

\* C21: no accessor of Layer (UnitVal1D, UnitVal1DTry, UnitVal, UnitValTry,
\* Pool, PoolTry) called with an index outside the layer aborts: each returns
\* its default value (0, or no pool) and, where it returns an error, one that
\* gives the index and the bound.  For a shape-based index the index is the
\* offset of the unit, as the error message has it.
QueryIdx == IF lastOp \in {"UnitVal", "UnitValTry"} THEN ShpOffset(ly.Shp, larg.idx)
            ELSE larg.idx[1]

QueryBound == IF lastOp \in {"Pool", "PoolTry"} THEN Cardinality(PIdx(ly)) ELSE NUnits(ly)

OutOfRange ==
    /\ lastOp \in {"UnitVal1D", "UnitVal1DTry", "UnitVal", "UnitValTry", "Pool", "PoolTry"}
    /\ (QueryIdx < 0 \/ QueryIdx >= QueryBound)

C21_NoAbort ==
    OutOfRange =>
        /\ ~lret.panic
        /\ IF lastOp \in {"Pool", "PoolTry"} THEN lret.pool = <<>> ELSE lret.val = 0
        /\ lret.err = IF lastOp \in {"UnitVal1DTry", "UnitValTry", "PoolTry"}
                        THEN <<QueryIdx, QueryBound>> ELSE <<>>

\* C22: a Sleep, then any number of InhibOscil calls, then Wake or
\* InhibOscilMute leave Inhib.Layer.Gi as it was just before the Sleep;
\* InhibOscil changes neither GiBase nor anything of Inhib.Pool.
SleptAt(i) ==
    /\ i \in 1..(Len(log) - 1)
    /\ log[i].op = "Sleep"
    /\ \A j \in (i + 1)..(Len(log) - 1) : log[j].op = "InhibOscil"
    /\ log[Len(log)].op \in {"Wake", "InhibOscilMute"}

C22_WakeRestores ==
    /\ [](\A i \in 1..Len(log) : SleptAt(i) => ly.LayerGi = log[i].Gi)
    /\ [][lastOp' = "InhibOscil" =>
            /\ ly'.LayerGiBase = ly.LayerGiBase
            /\ ly'.PoolGi = ly.PoolGi
            /\ ly'.PoolGiBase = ly.PoolGiBase]_vars

C22_Witness ==
    /\ Len(log) = 4
    /\ SleptAt(1)
    /\ log[1].Gi # FFFBParams.Gi
    /\ log[3].Gi # log[1].Gi
    /\ log[4].Gi # log[1].Gi
    /\ log[4].Gi # log[3].Gi
    /\ ly.LayerGi = log[1].Gi

\* C23: after Layer.AlphaCycInit (GScaleFmAvgAct) the scale GScale of every
\* active receiving projection of the layer is WtScale.Abs * WtScale.Rel *
\* SLayActScale(savg, snu, ncon), with savg the ActPAvgEff of the sending
\* layer, snu its number of neurons and ncon RConNAvgMax.Avg of the
\* projection, divided by the sum of WtScale.Rel over the active receiving
\* projections of the same kind (inhibitory or not) where that sum is
\* positive.  The second formula is without the division.
ScaledPrjns ==
    IF lastOp = "Layer.AlphaCycInit" THEN {p \in RcvPrjns(larg) : ~PrjnIsOff(nt, p)} ELSE {}

AbsRelSLay(p) ==
    LET pj == nt.Prjn[p]
        sl == SLayActScale(nt.Lay[p[1]].ActPAvgEff, nt.Lay[p[1]].NNeur * One, pj.NCon)
    IN FMul(FMul(pj.WtScale.Abs, pj.WtScale.Rel), sl.sc)

C23_GScaleNormed ==
    \A p \in ScaledPrjns :
        LET tot == TotRel(nt, p[2], nt.Prjn[p].Inhib) IN
        nt.Prjn[p].GScale = IF tot > 0 THEN FDiv(AbsRelSLay(p), tot) ELSE AbsRelSLay(p)

C23_GScaleFull == \A p \in ScaledPrjns : nt.Prjn[p].GScale = AbsRelSLay(p)

C23_Witness ==
    /\ lastOp = "Layer.AlphaCycInit"
    /\ larg = 2
    /\ Cardinality(ScaledPrjns) = 2
    /\ nt.Lay[1].ActPAvgEff # nt.Lay[3].ActPAvgEff
    /\ nt.Prjn[<<1, 2>>].GScale # nt.Prjn[<<3, 2>>].GScale
    /\ \A p \in ScaledPrjns : nt.Prjn[p].GScale > 0 /\ nt.Prjn[p].GScale # AbsRelSLay(p)

\* C24: for every sending average savg >= 0, number of sending units
\* snu >= 1 and average number of connections ncon >= 0, whole or not, the
\* whole number SLayActScale divides by is at least 1, and so the scale it
\* returns is finite and in (0, 1].
C24_DenomPositive ==
    lastOp = "SLayActScale" =>
        /\ lret.n >= 1
        /\ ~lret.inf
        /\ lret.sc <= One

\* C25: a run of Sim.SleepCyc makes MaxSlpCyc Cycle calls, in each of which
\* every active layer runs CaUpdt and CalSynDep before SendGDelta, and makes
\* no QuarterFinal, DWt or WtFmDWt call; in a run of Sim.AlphaCyc no layer
\* runs CaUpdt or CalSynDep, and nothing a layer runs writes Cai of a synapse.
NCalls(f) == Cardinality({i \in 1..Len(log) : log[i] = f})

SleepPhases == <<"CaUpdt", "CalSynDep">> \o SixPhases

C25_TimelinesApart ==
    /\ state = "slpcyc" =>
        /\ NCalls("QuarterFinal") = 0 /\ NCalls("DWt") = 0 /\ NCalls("WtFmDWt") = 0
        /\ NCalls("Cycle") <= MaxSlpCyc
        /\ pc = "done" => NCalls("Cycle") = MaxSlpCyc
        /\ \A l \in ActiveLayers :
            /\ IsPrefix(ltrace[l], SleepPhases)
            /\ (pc = "afterslp" /\ Idle) => ltrace[l] = SleepPhases
    /\ state # "slpcyc" =>
        \A l \in Layers : \A i \in 1..Len(ltrace[l]) :
            /\ ltrace[l][i] \notin {"CaUpdt", "CalSynDep"}
            /\ Writes(ltrace[l][i], l) \cap Syn(Prjns, {"Cai"}) = {}

C25_Witness ==
    /\ state = "slpcyc"
    /\ pc = "done"
    /\ NCalls("Cycle") = MaxSlpCyc
    /\ cycN = MaxSlpCyc
    /\ ActiveLayers # {}
    /\ \A l \in ActiveLayers : ltrace[l] = SleepPhases

\* C26: a Stop asked for while Train, TrainRun or TrainEpoch is running is
\* not lost: the loop returns with IsRunning false after the trial in
\* progress at most, so a second training trial is never begun after the
\* request, and a trial that has begun AlphaCyc runs its four quarters
\* before the loop tests the flag.
C26_StopNotLost ==
    /\ sim.req => sim.late <= 1
    /\ sim.at = "check" => sim.qtr \in {0, NQuarters}

\* C27: for a name of SynapseVars, VarByName returns the value of the field
\* of that name and SetVarByName writes that field and no other, without a
\* panic; for any other name they return (0, false) and false, and the
\* synapse is as it was.
C27_ByNameFaithful ==
    [][LET nm == larg'.varNm IN
       /\ (lastOp' = "VarByName" /\ nm \in SynapseVarNames) =>
            lret' = [val |-> sy[nm], ok |-> TRUE, panic |-> FALSE] /\ sy' = sy
       /\ (lastOp' = "SetVarByName" /\ nm \in SynapseVarNames) =>
            lret'.ok /\ ~lret'.panic /\ sy' = [sy EXCEPT ![nm] = larg'.val]
       /\ nm \notin SynapseVarNames =>
            lret' = [val |-> 0, ok |-> FALSE, panic |-> FALSE] /\ sy' = sy]_vars

\* C28: in every trial (ApplyInputs, then AlphaCyc), while the time is in
\* quarters 0 to 2 no neuron of a Target or Compare layer has the flag
\* NeurHasExt, although QuarterFinal of the trial before set it on the
\* neurons with a target; so none is hard-clamped before the plus phase.
C28_NoTargetInMinus ==
    (larg.trl >= 1 /\ larg.qtr <= 2 /\ ly.Typ \in {"Target", "Compare"}) =>
        \A ni \in NIdx(ly) : ~ly.Neurons[ni].HasExt

C28_Witness ==
    /\ larg.trl = 2
    /\ larg.qtr = 2
    /\ lastOp = "Cycle"
    /\ ly.Typ = "Target"
    /\ ly.Hard
    /\ \E ni \in NIdx(ly) : ly.Neurons[ni].HasTarg /\ ly.Neurons[ni].Targ > 0
    /\ \E ni \in NIdx(ly) : ~ly.Neurons[ni].HasTarg

\* C29: after a sleep trial (SleepCycInit, the sleep cycles, BackToWake)
\* the type of every layer, its Inhib.Layer.Gi, GiBase and FB, and
\* WtScale.Rel of the back projections are what they were before it.
C29_WakeAsBefore == lastOp = "BackToWake" => Cfg(nt) = nt.pre

\* C30: the GScale values Network.AlphaCycInit leaves in the projections
\* are the same for every order of the layers of the network: from the same
\* state, the call made with the layers in any other order gives every
\* projection the scale it has got.
C30_OrderFree ==
    [][lastOp' = "Network.AlphaCycInit" =>
        \A o \in Orders : NetAlphaCycInit([nt EXCEPT !.Layers = o]).Prjn = nt'.Prjn]_vars

=============================================================================
